---- MODULE Spec2Model ----
(***************************************************************************)
(* A model of the FND agent backend (fnd-agent/backend/app): the bounded   *)
(* tool-calling loop of ChatService.handle_chat with its context builder,  *)
(* intent parser and tool dispatcher, and the spec normalizer of the rules *)
(* engine.                                                                 *)
(*                                                                         *)
(* Text is modelled as a sequence of tokens.  A token is a character       *)
(* ([t |-> "ch"]), a JSON object literal written out in the text           *)
(* ([t |-> "obj"], which starts with an opening and ends with a closing    *)
(* brace), a fixed literal of the program ([t |-> "lit"]) or a rendered    *)
(* value.  Python's str.strip, json.loads and re.search are operators on   *)
(* such sequences.                                                         *)
(***************************************************************************)
EXTENDS Integers, Sequences, FiniteSets, TLC

VARIABLES
    payload,              \* the ChatRequest: [messages, active_sku]
    env,                  \* what the collaborators answer for this request:
                          \* [lexical, semantic, index_present]
    pc,                   \* "idle" | "loop" | "done"
    ordered_skus,         \* _prepare_context: the deduplicated candidates
    retrieved_details,    \* _prepare_context: the details it returns (by sku)
    context_text,         \* _prepare_context: the briefing
    conversation,         \* handle_chat: the conversation sent to the LLM
    referenced_products,  \* handle_chat: the running accumulator (by sku)
    llm_calls,            \* number of calls of self.llm.chat so far
    tools_ok,             \* number of tool calls executed successfully
    touched,              \* skus returned by the successful tool calls, in order
    sent,                 \* the conversation the last LLM call received
    last_reply,           \* the assistant text the last LLM call returned
    outcome,              \* how the request ended: [kind, status, exc]
    response,             \* the ChatResponse returned, or NoResponse
    specs,                \* build_spec_map: the attribute records given
    spec_map,             \* build_spec_map: the map returned, in insertion order
    norm_pc,              \* "idle" | "done": build_spec_map has returned
    num_raw,              \* _extract_float: the text given (raw)
    number,               \* _extract_float: the value returned, or NoNumber
    num_pc,               \* "idle" | "done": _extract_float has returned
    rule_detail,          \* the evaluators: the product's attribute records
    rule_use_case,        \* the evaluators: the use case asked about
    verdict,              \* the evaluators: the UsageCheckResponse returned
    rule_pc,              \* "idle" | "done": the evaluator has returned
    api_request,          \* the routes: [method, path, sku, use_case]
    api_specs,            \* the routes: the specs stored for the product
    api_response,         \* the routes: [status, detail, body]
    api_pc,               \* "idle" | "received" | "answered"
    cached_index,         \* embedding_store._cached_index: None or an instance
    constructed,          \* the ProductEmbeddingIndex instances made so far
    files_present,        \* the embedding files exist on disk
    idx_threads,          \* per thread in get_embedding_index: [pc, built, result]
    search_arguments,     \* the search_products tool: the arguments given
    search_matching,      \* the search_products tool: the rows the query matches
    search_result,        \* the search_products tool: [exc, asked, rows]
    search_pc             \* "idle" | "done": the tool call has ended

vars == <<payload, env, pc, ordered_skus, retrieved_details, context_text,
          conversation, referenced_products, llm_calls, tools_ok, touched,
          sent, last_reply, outcome, response, specs, spec_map, norm_pc,
          num_raw, number, num_pc,
          rule_detail, rule_use_case, verdict, rule_pc,
          api_request, api_specs, api_response, api_pc,
          cached_index, constructed, files_present, idx_threads,
          search_arguments, search_matching, search_result, search_pc>>

chat_vars == <<payload, env, pc, ordered_skus, retrieved_details, context_text,
               conversation, referenced_products, llm_calls, tools_ok, touched,
               sent, last_reply, outcome, response>>

norm_vars == <<specs, spec_map, norm_pc>>

num_vars == <<num_raw, number, num_pc>>

rule_vars == <<rule_detail, rule_use_case, verdict, rule_pc>>

api_vars == <<api_request, api_specs, api_response, api_pc>>
index_vars == <<cached_index, constructed, files_present, idx_threads>>
search_vars == <<search_arguments, search_matching, search_result, search_pc>>

\* What each part of the program leaves alone
beside_chat ==
    <<norm_vars, num_vars, rule_vars, api_vars, index_vars, search_vars>>
beside_norm ==
    <<chat_vars, num_vars, rule_vars, api_vars, index_vars, search_vars>>
beside_num ==
    <<chat_vars, norm_vars, rule_vars, api_vars, index_vars, search_vars>>
beside_rules ==
    <<chat_vars, norm_vars, num_vars, api_vars, index_vars, search_vars>>
beside_api ==
    <<chat_vars, norm_vars, num_vars, rule_vars, index_vars, search_vars>>
beside_index ==
    <<chat_vars, norm_vars, num_vars, rule_vars, api_vars, search_vars>>
beside_search ==
    <<chat_vars, norm_vars, num_vars, rule_vars, api_vars, index_vars>>

-----------------------------------------------------------------------------
(* Program constants *)

MAX_TOOL_CALLS == 3
TOP_K == 3
DEFAULT_LIMIT == 5
LIMIT_CAP == 25

-----------------------------------------------------------------------------
(* Text *)

Ch(c) == [t |-> "ch", c |-> c]
Lit(s) == [t |-> "lit", s |-> s]
SP == Ch(" ")
TAB == Ch("\t")
XX == Ch("x")
LBRACE == Ch("{")
RBRACE == Ch("}")

IsSpace(tok) == tok.t = "ch" /\ tok.c \in {" ", "\t", "\n"}

RECURSIVE LStrip(_)
LStrip(s) == IF s # <<>> /\ IsSpace(Head(s)) THEN LStrip(Tail(s)) ELSE s

RECURSIVE RStrip(_)
RStrip(s) ==
    IF s # <<>> /\ IsSpace(s[Len(s)]) THEN RStrip(SubSeq(s, 1, Len(s) - 1)) ELSE s

\* str.strip(): leading and trailing whitespace removed
Strip(s) == RStrip(LStrip(s))

-----------------------------------------------------------------------------
(* JSON values, as json.loads returns them *)

Absent == [k |-> "absent"]            \* the key is not in the object
JNull == [k |-> "null"]
JStr(s) == [k |-> "str", s |-> s]     \* a string naming something
JText(cs) == [k |-> "text", cs |-> cs] \* a string of free text (characters)
JInt(n) == [k |-> "int", n |-> n]
JList == [k |-> "list"]               \* a non-empty array
JMap(query, limit, sku, use_case) ==
    [k |-> "map", query |-> query, limit |-> limit, sku |-> sku,
     use_case |-> use_case]
EmptyMap == JMap(Absent, Absent, Absent, Absent)

\* A JSON object written in the assistant text, with the four keys the
\* program reads.
Obj(action, tool_name, arguments, content) ==
    [t |-> "obj", action |-> action, tool_name |-> tool_name,
     arguments |-> arguments, content |-> content]
EmptyObj == Obj(Absent, Absent, Absent, Absent)

\* Python truthiness (bool(v)); a missing key reads as None
Truthy(v) ==
    CASE v.k = "absent" -> FALSE
      [] v.k = "null" -> FALSE
      [] v.k = "str" -> v.s # ""
      [] v.k = "text" -> v.cs # <<>>
      [] v.k = "int" -> v.n # 0
      [] OTHER -> TRUE

\* hash(v) raises TypeError for lists and dicts
Hashable(v) == v.k \notin {"list", "map"}

IsEmptyBraces(s) ==
    /\ Len(s) >= 2
    /\ s[1] = LBRACE
    /\ s[Len(s)] = RBRACE
    /\ \A i \in 2..(Len(s) - 1) : IsSpace(s[i])

\* json.loads(s): [ok, data].  ok = FALSE is json.JSONDecodeError.  Of the
\* texts of this model the ones that decode are a single object literal and
\* "{}", with whitespace around them; both decode to a dict.
json_loads(s) ==
    LET b == Strip(s) IN
    IF Len(b) = 1 /\ b[1].t = "obj" THEN [ok |-> TRUE, data |-> b[1]]
    ELSE IF IsEmptyBraces(b) THEN [ok |-> TRUE, data |-> EmptyObj]
    ELSE [ok |-> FALSE, data |-> EmptyObj]

Opens(tok) == tok.t = "obj" \/ tok = LBRACE
Closes(tok) == tok.t = "obj" \/ tok = RBRACE

\* re.search(r"\{.*\}", s, re.DOTALL): [found, group], the greedy match from
\* the first opening brace to the last closing brace after it.
re_search_braces(s) ==
    LET opens == {i \in 1..Len(s) : Opens(s[i])}
        closes == {i \in 1..Len(s) : Closes(s[i])}
        first == CHOOSE i \in opens : \A j \in opens : i <= j
        last == CHOOSE i \in closes : \A j \in closes : j <= i
    IN  IF opens = {} \/ closes = {} THEN [found |-> FALSE, group |-> <<>>]
        ELSE IF first < last \/ (first = last /\ s[first].t = "obj")
             THEN [found |-> TRUE, group |-> SubSeq(s, first, last)]
             ELSE [found |-> FALSE, group |-> <<>>]

-----------------------------------------------------------------------------
(* Sequences *)

Take(s, n) == IF n >= Len(s) THEN s ELSE SubSeq(s, 1, n)

Contains(s, x) == \E i \in 1..Len(s) : s[i] = x

-----------------------------------------------------------------------------
(* The collaborators *)

\* The products of the catalog store, and identifiers it does not hold (a
\* stale index entry, a SKU the model or the UI made up).
Catalog == {"A", "B", "C", "E"}
StaleSkus == {"D"}
SKUS == Catalog \cup StaleSkus

\* getDetail(id) -> ProductDetail | absent.  A detail is identified by the
\* sku of its product.
load_product_with_details(sku) ==
    IF sku \in Catalog THEN [found |-> TRUE, sku |-> sku]
    ELSE [found |-> FALSE, sku |-> sku]

\* product_loader.search_products: SELECT ... LIMIT ?.  `matching` are the
\* rows the WHERE clause selects, in the store's order; SQLite reads a
\* negative LIMIT as no limit.
search_products(matching, limit) ==
    IF limit < 0 THEN matching ELSE Take(matching, limit)

\* ProductEmbeddingIndex.search: the top_k best-scoring entries.  `ranking`
\* is the index's entries by descending score.
embedding_search(ranking, query, top_k) ==
    IF Strip(query) = <<>> \/ ranking = <<>> THEN <<>> ELSE Take(ranking, top_k)

USE_CASES ==
    {"bathroom_floor", "shower_floor", "shower_wall", "fireplace_surround",
     "radiant_heat", "outdoor_patio", "pool_deck", "kitchen_backsplash",
     "commercial_heavy_floor", "laundry_room_floor", "basement_floor",
     "steam_shower_enclosure", "outdoor_kitchen_counter",
     "garage_workshop_floor", "driveway_paver", "stair_tread",
     "commercial_kitchen_floor", "pool_interior", "exterior_wall_cladding"}

\* The use cases that have a checker in use_case_checks.USE_CASE_CHECKERS
USE_CASE_CHECKERS == USE_CASES

-----------------------------------------------------------------------------
(* chat_service.py *)

SYSTEM_PROMPT == <<Lit("SYSTEM_PROMPT")>>
REMINDER == <<Lit("Remember: respond with JSON as described earlier.")>>

Msg(role, content) == [role |-> role, content |-> content]

NoResponse == [returned |-> FALSE, content |-> <<>>, referenced_products |-> <<>>]
ChatResponse(content, refs) ==
    [returned |-> TRUE, content |-> content, referenced_products |-> refs]

Pending == [kind |-> "pending", status |-> 0, exc |-> "none"]
Returned == [kind |-> "response", status |-> 200, exc |-> "none"]
HTTPException(status) ==
    [kind |-> CASE status = 404 -> "not_found"
                [] status = 500 -> "tool_budget"
                [] OTHER -> "validation",
     status |-> status, exc |-> "HTTPException"]
Precondition == [kind |-> "precondition", status |-> 400, exc |-> "HTTPException"]
Unhandled(exc) == [kind |-> "unhandled", status |-> 500, exc |-> exc]
LLMFailure == [kind |-> "llm_failure", status |-> 500, exc |-> "RuntimeError"]

\* _dedupe_products: the loop over details with the `seen` set
RECURSIVE dedupe_loop(_, _, _)
dedupe_loop(details, seen, unique) ==
    IF details = <<>> THEN unique
    ELSE IF Head(details) \in seen
         THEN dedupe_loop(Tail(details), seen, unique)
         ELSE dedupe_loop(Tail(details), seen \cup {Head(details)},
                          Append(unique, Head(details)))

dedupe_products_kept(details) == details
dedupe_products(details) == dedupe_loop(details, {}, <<>>)

\* _prepare_context, lines 171-180: the candidate identifiers
candidate_skus(query, active_sku, e) ==
    (IF Truthy(active_sku) THEN <<active_sku.s>> ELSE <<>>)
    \o (IF Strip(query) # <<>>
        THEN search_products(e.lexical, TOP_K)
             \o embedding_search(e.semantic, query, TOP_K)
        ELSE <<>>)

\* _prepare_context, lines 182-187: first-seen order, empty skus skipped
RECURSIVE ordered_loop(_, _, _)
ordered_loop(cands, seen, ordered) ==
    IF cands = <<>> THEN ordered
    ELSE IF Head(cands) # "" /\ Head(cands) \notin seen
         THEN ordered_loop(Tail(cands), seen \cup {Head(cands)},
                           Append(ordered, Head(cands)))
         ELSE ordered_loop(Tail(cands), seen, ordered)

order_skus(cands) == ordered_loop(cands, {}, <<>>)

\* _prepare_context, lines 189-195: resolve the first top_k identifiers,
\* dropping the ones the store does not hold
RECURSIVE resolve_details_stop(_)
resolve_details_stop(skus) ==
    IF skus = <<>> THEN <<>>
    ELSE LET detail == load_product_with_details(Head(skus)) IN
         IF detail.found THEN <<detail.sku>> \o resolve_details_stop(Tail(skus))
         ELSE <<>>

RECURSIVE resolve_details(_)
resolve_details(skus) ==
    IF skus = <<>> THEN <<>>
    ELSE LET detail == load_product_with_details(Head(skus)) IN
         (IF detail.found THEN <<detail.sku>> ELSE <<>>)
         \o resolve_details(Tail(skus))

context_details_untruncated(ordered) == resolve_details(ordered)
context_details(ordered) == resolve_details(Take(ordered, TOP_K))

\* _detail_to_summary: the numbered summary of one detail
Summary(sku, idx) == [t |-> "summary", idx |-> idx, sku |-> sku]

\* _prepare_context, lines 197-207: the briefing, "" when nothing resolved
briefing(details) ==
    IF details = <<>> THEN <<>>
    ELSE <<Lit("Relevant Floor & Decor products:")>>
         \o [i \in 1..Len(details) |-> Summary(details[i], i)]
         \o <<Lit("Use these facts when answering the next user question.")>>

\* _build_conversation
RECURSIVE copy_turns(_)
copy_turns(messages) ==
    IF messages = <<>> THEN <<>>
    ELSE (IF Head(messages).role \in {"user", "assistant"}
          THEN <<Msg(Head(messages).role, Head(messages).content)>>
          ELSE <<>>)
         \o copy_turns(Tail(messages))

build_conversation_briefing_last(messages, ctx) ==
    <<Msg("system", SYSTEM_PROMPT)>>
    \o copy_turns(messages)
    \o (IF ctx # <<>> THEN <<Msg("system", ctx)>> ELSE <<>>)
    \o <<Msg("system", REMINDER)>>

build_conversation(messages, ctx) ==
    <<Msg("system", SYSTEM_PROMPT)>>
    \o (IF ctx # <<>> THEN <<Msg("system", ctx)>> ELSE <<>>)
    \o copy_turns(messages)
    \o <<Msg("system", REMINDER)>>

\* _parse_action: [exc, action]
RECOGNIZED == {JStr("call_tool"), JStr("final_response")}

parse_action(raw) ==
    LET content == Strip(raw)
        whole == json_loads(content)
        match == re_search_braces(content)
        sub == json_loads(match.group)
        fallback == Obj(JStr("final_response"), Absent, Absent, JText(content))
    IN  IF whole.ok /\ ~Hashable(whole.data.action)
        THEN [exc |-> "TypeError", action |-> fallback]
        ELSE IF whole.ok /\ whole.data.action \in RECOGNIZED
        THEN [exc |-> "none", action |-> whole.data]
        ELSE IF match.found /\ sub.ok /\ Truthy(sub.data.action)
        THEN [exc |-> "none", action |-> sub.data]
        ELSE [exc |-> "none", action |-> fallback]

\* int(v), for the values a `limit` takes: [exc, n]
Numerals == [s \in {"7"} |-> 7]

int(v) ==
    CASE v.k = "int" -> [exc |-> "none", n |-> v.n]
      [] v.k = "str" ->
            IF v.s \in DOMAIN Numerals THEN [exc |-> "none", n |-> Numerals[v.s]]
            ELSE [exc |-> "ValueError", n |-> 0]
      [] v.k = "text" -> [exc |-> "ValueError", n |-> 0]
      [] OTHER -> [exc |-> "TypeError", n |-> 0]

Min(a, b) == IF a <= b THEN a ELSE b

\* json.dumps of a tool's result
JsonDump(kind, sku, use_case, limit) ==
    <<[t |-> "json", kind |-> kind, sku |-> sku, use_case |-> use_case,
       limit |-> limit]>>

ToolReturn(text, refs) ==
    [exc |-> "none", status |-> 200, text |-> text, refs |-> refs]
ToolRaise(exc, status) ==
    [exc |-> exc, status |-> status, text |-> <<>>, refs |-> <<>>]

\* dict.get(key, default)
Get(v, default) == IF v = Absent THEN default ELSE v

\* _execute_tool, the search_products branch (lines 234-239)
execute_search(arguments) ==
    IF arguments.k # "map" THEN ToolRaise("AttributeError", 500)
    ELSE LET limit == int(Get(arguments.limit, JInt(DEFAULT_LIMIT))) IN
         IF limit.exc # "none" THEN ToolRaise(limit.exc, 500)
         ELSE ToolReturn(JsonDump("results", "", "", Min(limit.n, LIMIT_CAP)),
                         <<>>)

execute_detail_lenient(arguments) ==
    IF arguments.k # "map" THEN ToolRaise("AttributeError", 500)
    ELSE IF ~Truthy(arguments.sku) THEN ToolRaise("HTTPException", 400)
    ELSE LET detail == load_product_with_details(arguments.sku.s) IN
         IF ~detail.found THEN ToolReturn(JsonDump("detail", "", "", 0), <<>>)
         ELSE ToolReturn(JsonDump("detail", detail.sku, "", 0), <<detail.sku>>)

\* _execute_tool, the get_product_detail branch (lines 241-250)
execute_detail(arguments) ==
    IF arguments.k # "map" THEN ToolRaise("AttributeError", 500)
    ELSE IF ~Truthy(arguments.sku) THEN ToolRaise("HTTPException", 400)
    ELSE LET detail == load_product_with_details(arguments.sku.s) IN
         IF ~detail.found THEN ToolRaise("HTTPException", 404)
         ELSE ToolReturn(JsonDump("detail", detail.sku, "", 0), <<detail.sku>>)

\* _execute_tool, the check_usage branch (lines 252-272)
execute_usage(arguments) ==
    IF arguments.k # "map" THEN ToolRaise("AttributeError", 500)
    ELSE IF ~Truthy(arguments.sku) \/ ~Truthy(arguments.use_case)
    THEN ToolRaise("HTTPException", 400)
    ELSE IF arguments.use_case.s \notin USE_CASES
    THEN ToolRaise("HTTPException", 400)
    ELSE LET detail == load_product_with_details(arguments.sku.s) IN
         IF ~detail.found THEN ToolRaise("HTTPException", 404)
         ELSE IF arguments.use_case.s \notin USE_CASE_CHECKERS
         THEN ToolRaise("HTTPException", 400)
         ELSE ToolReturn(JsonDump("usage", detail.sku, arguments.use_case.s, 0),
                         <<detail.sku>>)

\* _execute_tool: [exc, status, text, refs]
execute_tool(tool_name, arguments) ==
    CASE tool_name = JStr("search_products") -> execute_search(arguments)
      [] tool_name = JStr("get_product_detail") -> execute_detail(arguments)
      [] tool_name = JStr("check_usage") -> execute_usage(arguments)
      [] OTHER -> ToolRaise("HTTPException", 400)

\* handle_chat, lines 126-133: the two messages a tool call appends
tool_messages_result_first(assistant_content, tool_name, tool_response_text) ==
    <<Msg("system", <<Lit("Tool "), [t |-> "fmt", v |-> tool_name],
                      Lit(" result:")>>
                    \o tool_response_text
                    \o <<Lit("Respond with another JSON directive.")>>),
      Msg("assistant", assistant_content)>>

tool_messages(assistant_content, tool_name, tool_response_text) ==
    <<Msg("assistant", assistant_content),
      Msg("system", <<Lit("Tool "), [t |-> "fmt", v |-> tool_name],
                      Lit(" result:")>>
                    \o tool_response_text
                    \o <<Lit("Respond with another JSON directive.")>>)>>

\* handle_chat, line 117: `for _ in range(MAX_TOOL_CALLS)` has no iteration
\* left after `calls` of them
loop_exhausted_late(calls) == calls >= MAX_TOOL_CALLS + 1
loop_exhausted(calls) == calls >= MAX_TOOL_CALLS

\* handle_chat, line 137: final_text.strip()
response_content_unstripped(final) == final.cs
response_content(final) == Strip(final.cs)

\* handle_chat, line 136: action.get("content") or assistant_content
final_text(action, assistant_content) ==
    IF Truthy(action.content) THEN action.content ELSE JText(assistant_content)

\* The last message of the caller with role "user" (line 96): its index, or 0
last_user_index(messages) ==
    IF \E i \in 1..Len(messages) : messages[i].role = "user"
    THEN CHOOSE i \in 1..Len(messages) :
            /\ messages[i].role = "user"
            /\ \A j \in (i + 1)..Len(messages) : messages[j].role # "user"
    ELSE 0

-----------------------------------------------------------------------------
(* The inputs the model draws *)

MaxTextLen == 2
MaxHits == 4

RECURSIVE SeqsUpTo(_, _)
SeqsUpTo(S, n) ==
    IF n = 0 THEN {<<>>}
    ELSE LET shorter == SeqsUpTo(S, n - 1) IN
         shorter \cup {Append(s, x) : s \in {z \in shorter : Len(z) = n - 1}, x \in S}

NoRepeat(s) == \A i, j \in 1..Len(s) : s[i] = s[j] => i = j

Q == <<XX>>
BLANK == <<SP>>

\* Assistant texts without a JSON object: characters, braces included
Chars == {SP, XX, LBRACE, RBRACE}
FreeTexts == SeqsUpTo(Chars, MaxTextLen) \ {<<>>}

ActionVals == {Absent, JStr("final_response"), JStr("think"), JInt(5), JList}
ContentVals == {Absent, JText(<<>>), JText(<<XX>>), JText(<<SP, XX>>), JInt(42)}

\* Objects that are not tool calls
FinalObjs == {Obj(a, Absent, Absent, c) : a \in ActionVals, c \in ContentVals}

SearchArgs ==
    {Absent, JNull}
    \cup {JMap(JStr("q"), l, Absent, Absent) :
            l \in {Absent, JInt(30), JStr("many"), JNull}}
DetailArgs ==
    {Absent, JNull}
    \cup {JMap(Absent, Absent, s, Absent) :
            s \in {Absent, JStr(""), JStr("A"), JStr("B"), JStr("D")}}
UsageArgs ==
    {JNull}
    \cup {JMap(Absent, Absent, s, u) :
            s \in {Absent, JStr("A"), JStr("D")},
            u \in {Absent, JStr("bathroom_floor"), JStr("living_room")}}

\* Tool calls
CallObjs ==
    {Obj(JStr("call_tool"), JStr("search_products"), a, Absent) : a \in SearchArgs}
    \cup {Obj(JStr("call_tool"), JStr("get_product_detail"), a, Absent) :
            a \in DetailArgs}
    \cup {Obj(JStr("call_tool"), JStr("check_usage"), a, Absent) : a \in UsageArgs}
    \cup {Obj(JStr("call_tool"), t, a, Absent) :
            t \in {Absent, JStr("delete_product")}, a \in {Absent, JNull}}

\* Objects that also appear with text around them
ProbeObjs ==
    {Obj(JStr("call_tool"), JStr("get_product_detail"),
         JMap(Absent, Absent, JStr("A"), Absent), Absent),
     Obj(JStr("final_response"), Absent, Absent, JText(<<XX>>)),
     Obj(JStr("think"), Absent, Absent, JText(<<XX>>)),
     Obj(JStr("think"), Absent, Absent, Absent),
     Obj(Absent, Absent, Absent, JText(<<XX>>))}

PadForms(o) ==
    {<<SP, o>>, <<o, SP>>, <<XX, o>>, <<o, XX>>, <<LBRACE, o>>, <<o, RBRACE>>}

\* What the LLM may answer
Replies ==
    FreeTexts
    \cup {<<o>> : o \in FinalObjs \cup CallObjs}
    \cup UNION {PadForms(o) : o \in ProbeObjs}

Roles == {"user", "assistant", "tool"}

ChatPayloads ==
    {[messages |-> m, active_sku |-> a] :
        m \in {<<>>, <<Msg("assistant", Q)>>, <<Msg("user", Q)>>,
               <<Msg("user", BLANK)>>},
        a \in {JNull, JStr("B")}}
ChatEnvs ==
    {[lexical |-> l, semantic |-> <<"B", "D">>, index_present |-> i] :
        l \in {<<>>, <<"A">>}, i \in BOOLEAN}

\* The context builder's inputs: every active sku, every answer of the
\* store (distinct rows of the catalog) and of the index (distinct entries,
\* stale ones included)
ActiveSkus == {JNull, JStr("")} \cup {JStr(s) : s \in SKUS}
CtxPayloads ==
    {[messages |-> <<Msg("user", q)>>, active_sku |-> a] :
        q \in {Q, BLANK}, a \in ActiveSkus}
CtxEnvs ==
    {[lexical |-> l, semantic |-> r, index_present |-> TRUE] :
        l \in {z \in SeqsUpTo(Catalog, MaxHits) : NoRepeat(z)},
        r \in {z \in SeqsUpTo(SKUS, MaxHits) : NoRepeat(z)}}

-----------------------------------------------------------------------------
(* handle_chat *)

Idle ==
    /\ pc = "idle"
    /\ ordered_skus = <<>>
    /\ retrieved_details = <<>>
    /\ context_text = <<>>
    /\ conversation = <<>>
    /\ referenced_products = <<>>
    /\ llm_calls = 0
    /\ tools_ok = 0
    /\ touched = <<>>
    /\ sent = <<>>
    /\ last_reply = <<>>
    /\ outcome = Pending
    /\ response = NoResponse

\* The request ends by raising `how`
Raise(how) ==
    /\ pc' = "done"
    /\ outcome' = how
    /\ response' = NoResponse

\* Lines 93-115: validation, the context builder, the first conversation
StartRequest ==
    /\ pc = "idle"
    /\ LET messages == payload.messages
           lu == last_user_index(messages)
           query == messages[lu].content
           ordered == order_skus(candidate_skus(query, payload.active_sku, env))
           details == context_details(ordered)
           ctx == briefing(details)
       IN  IF messages = <<>> \/ lu = 0
           THEN /\ Raise(HTTPException(400))
                /\ UNCHANGED <<ordered_skus, retrieved_details, context_text,
                               conversation, referenced_products>>
           ELSE IF ~env.index_present
           THEN /\ Raise(Precondition)
                /\ UNCHANGED <<ordered_skus, retrieved_details, context_text,
                               conversation, referenced_products>>
           ELSE /\ ordered_skus' = ordered
                /\ retrieved_details' = details
                /\ context_text' = ctx
                /\ conversation' = build_conversation(messages, ctx)
                /\ referenced_products' = details
                /\ IF loop_exhausted(0)
                   THEN Raise(HTTPException(500))
                   ELSE pc' = "loop" /\ UNCHANGED <<outcome, response>>
    /\ UNCHANGED <<payload, env, llm_calls, tools_ok, touched, sent, last_reply>>
    /\ UNCHANGED beside_chat

\* Lines 117-143: one iteration of the loop on the LLM's answer `reply`
Iteration(reply) ==
    LET parsed == parse_action(reply)
        action == parsed.action
        tool_name == action.tool_name
        arguments == Get(action.arguments, EmptyMap)
        tool == execute_tool(tool_name, arguments)
        final == final_text(action, reply)
    IN  IF parsed.exc # "none"
        THEN /\ Raise(Unhandled(parsed.exc))
             /\ UNCHANGED <<conversation, referenced_products, tools_ok, touched>>
        ELSE IF action.action = JStr("call_tool")
        THEN IF tool.exc = "HTTPException"
             THEN /\ Raise(HTTPException(tool.status))
                  /\ UNCHANGED <<conversation, referenced_products, tools_ok,
                                 touched>>
             ELSE IF tool.exc # "none"
             THEN /\ Raise(Unhandled(tool.exc))
                  /\ UNCHANGED <<conversation, referenced_products, tools_ok,
                                 touched>>
             ELSE /\ referenced_products' = referenced_products \o tool.refs
                  /\ conversation' =
                        conversation \o tool_messages(reply, tool_name, tool.text)
                  /\ tools_ok' = tools_ok + 1
                  /\ touched' = touched \o tool.refs
                  /\ IF loop_exhausted(llm_calls + 1)
                     THEN Raise(HTTPException(500))
                     ELSE pc' = "loop" /\ UNCHANGED <<outcome, response>>
        ELSE IF final.k # "text"
        THEN /\ Raise(Unhandled("AttributeError"))
             /\ UNCHANGED <<conversation, referenced_products, tools_ok, touched>>
        ELSE /\ pc' = "done"
             /\ outcome' = Returned
             /\ response' = ChatResponse(response_content(final),
                                         dedupe_products(referenced_products))
             /\ UNCHANGED <<conversation, referenced_products, tools_ok, touched>>

\* self.llm.chat(conversation) returns a non-empty text
LLMReply ==
    /\ pc = "loop"
    /\ \E reply \in Replies :
        /\ llm_calls' = llm_calls + 1
        /\ sent' = conversation
        /\ last_reply' = reply
        /\ Iteration(reply)
    /\ UNCHANGED <<payload, env, ordered_skus, retrieved_details, context_text>>
    /\ UNCHANGED beside_chat

LLMFail_retried ==
    /\ pc = "loop"
    /\ llm_calls' = llm_calls + 1
    /\ sent' = conversation
    /\ last_reply' = <<>>
    /\ IF loop_exhausted(llm_calls + 1)
       THEN Raise(LLMFailure)
       ELSE pc' = "loop" /\ UNCHANGED <<outcome, response>>
    /\ UNCHANGED <<payload, env, ordered_skus, retrieved_details, context_text,
                   conversation, referenced_products, tools_ok, touched>>
    /\ UNCHANGED beside_chat

\* self.llm.chat(conversation) raises: a transport error, or RuntimeError on
\* a missing or empty content (ollama_client.py, lines 39-44)
LLMFail ==
    /\ pc = "loop"
    /\ llm_calls' = llm_calls + 1
    /\ sent' = conversation
    /\ last_reply' = <<>>
    /\ Raise(LLMFailure)
    /\ UNCHANGED <<payload, env, ordered_skus, retrieved_details, context_text,
                   conversation, referenced_products, tools_ok, touched>>
    /\ UNCHANGED beside_chat

NormIdle == specs = <<>> /\ spec_map = <<>> /\ norm_pc = "idle"

\* Optional[float]: None, or the value num / den (den > 0)
NoNumber == [some |-> FALSE, num |-> 0, den |-> 1]
Float(num, den) == [some |-> TRUE, num |-> num, den |-> den]

NumIdle == num_raw = <<>> /\ number = NoNumber /\ num_pc = "idle"

\* No UsageCheckResponse yet
NoVerdict ==
    [use_case |-> "", ok |-> "", confidence |-> Float(0, 100),
     supporting_specs |-> <<>>]

RulesIdle ==
    rule_detail = <<>> /\ rule_use_case = "" /\ verdict = NoVerdict /\ rule_pc = "idle"

\* No request has come in
ApiIdle ==
    /\ api_request = [method |-> "", path |-> "", sku |-> "", use_case |-> ""]
    /\ api_specs = <<>>
    /\ api_response = [status |-> 0, detail |-> "", body |-> <<>>]
    /\ api_pc = "idle"

\* Python's None, for a variable that holds None or an instance number
None == 0

\* No request has asked for the index
IndexIdle ==
    /\ cached_index = None
    /\ constructed = 0
    /\ files_present = TRUE
    /\ idx_threads = <<>>

\* No search_products tool call has been made
NoSearch == [exc |-> "none", asked |-> 0, rows |-> <<>>]

SearchIdle ==
    /\ search_arguments = EmptyMap
    /\ search_matching = <<>>
    /\ search_result = NoSearch
    /\ search_pc = "idle"

\* No request is in progress
ChatIdle ==
    /\ payload = [messages |-> <<>>, active_sku |-> JNull]
    /\ env = [lexical |-> <<>>, semantic |-> <<>>, index_present |-> TRUE]
    /\ Idle

Init ==
    /\ payload \in ChatPayloads
    /\ env \in ChatEnvs
    /\ Idle
    /\ NormIdle
    /\ NumIdle
    /\ RulesIdle
    /\ ApiIdle
    /\ IndexIdle
    /\ SearchIdle

Next == StartRequest \/ LLMReply \/ LLMFail

Spec == Init /\ [][Next]_vars

\* The context builder alone, over every answer of the store and the index
InitCtx ==
    /\ payload \in CtxPayloads
    /\ env \in CtxEnvs
    \* a blank query asks neither the store nor the index
    /\ payload.messages[1].content = BLANK
          => Len(env.lexical) + Len(env.semantic) <= 1
    /\ Idle
    /\ NormIdle
    /\ NumIdle
    /\ RulesIdle
    /\ ApiIdle
    /\ IndexIdle
    /\ SearchIdle

NextCtx == StartRequest

SpecCtx == InitCtx /\ [][NextCtx]_vars

-----------------------------------------------------------------------------
(* rules_engine.py: build_spec_map *)

MaxRecords == 2

LA == Ch("a")
UA == Ch("A")
LB == Ch("b")

\* str.lower()
LowerOf ==
    ("A" :> "a") @@ ("B" :> "b") @@ ("C" :> "c") @@ ("D" :> "d") @@
    ("E" :> "e") @@ ("F" :> "f") @@ ("G" :> "g") @@ ("H" :> "h") @@
    ("I" :> "i") @@ ("J" :> "j") @@ ("K" :> "k") @@ ("L" :> "l") @@
    ("M" :> "m") @@ ("N" :> "n") @@ ("O" :> "o") @@ ("P" :> "p") @@
    ("Q" :> "q") @@ ("R" :> "r") @@ ("S" :> "s") @@ ("T" :> "t") @@
    ("U" :> "u") @@ ("V" :> "v") @@ ("W" :> "w") @@ ("X" :> "x") @@
    ("Y" :> "y") @@ ("Z" :> "z")
lower_char(tok) ==
    IF tok.t = "ch" /\ tok.c \in DOMAIN LowerOf THEN Ch(LowerOf[tok.c]) ELSE tok
lower(s) == [i \in 1..Len(s) |-> lower_char(s[i])]

\* " ".join(s.split()): runs of whitespace become one space, none at the ends
RECURSIVE collapse(_)
collapse(s) ==
    LET b == LStrip(s) IN
    IF b = <<>> THEN <<>>
    ELSE IF \E i \in 1..Len(b) : IsSpace(b[i])
    THEN LET sp == CHOOSE i \in 1..Len(b) :
                      IsSpace(b[i]) /\ \A j \in 1..(i - 1) : ~IsSpace(b[j])
             rest == collapse(SubSeq(b, sp, Len(b)))
         IN  SubSeq(b, 1, sp - 1) \o (IF rest = <<>> THEN <<>> ELSE <<SP>> \o rest)
    ELSE b

\* Line 22: spec.spec_key.strip().lower()
normalize_key_cased(spec_key) == Strip(spec_key)
normalize_key(spec_key) == lower(Strip(spec_key))

\* Line 25: " ".join(spec.spec_value.split())
normalize_value(spec_value) == collapse(spec_value)

\* Line 28: a later value replaces the one held only when strictly shorter
replaces_on_tie(val, existing) == Len(val) <= Len(existing)
replaces(val, existing) == Len(val) < Len(existing)

Entry(key, val) == [key |-> key, val |-> val]

HasKey(m, key) == \E i \in 1..Len(m) : m[i].key = key
Lookup(m, key) == m[CHOOSE i \in 1..Len(m) : m[i].key = key].val
Store(m, key, val) ==
    IF HasKey(m, key)
    THEN [i \in 1..Len(m) |-> IF m[i].key = key THEN Entry(key, val) ELSE m[i]]
    ELSE Append(m, Entry(key, val))

\* Lines 21-29: the loop over detail.specs
RECURSIVE spec_map_loop(_, _)
spec_map_loop(records, m) ==
    IF records = <<>> THEN m
    ELSE LET key == normalize_key(Head(records).spec_key)
             val == normalize_value(Head(records).spec_value)
         IN  IF key = <<>> THEN spec_map_loop(Tail(records), m)
             ELSE IF ~HasKey(m, key) \/ replaces(val, Lookup(m, key))
             THEN spec_map_loop(Tail(records), Store(m, key, val))
             ELSE spec_map_loop(Tail(records), m)

build_spec_map(records) == spec_map_loop(records, <<>>)

ProductSpec(k, v) == [spec_key |-> k, spec_value |-> v]

\* Attribute keys as scraped: cased, padded, with runs of blanks and tabs
KeySamples ==
    {<<>>, <<SP>>, <<LA>>, <<UA>>, <<SP, LA>>, <<LA, TAB>>, <<UA, SP, LB>>,
     <<LA, SP, SP, LB>>, <<LA, TAB, LB>>}
ValueSamples ==
    {<<>>, <<XX>>, <<LB>>, <<XX, XX>>, <<SP, XX>>, <<XX, SP, TAB, XX>>}
SpecRecords == {ProductSpec(k, v) : k \in KeySamples, v \in ValueSamples}

BuildSpecMap ==
    /\ norm_pc = "idle"
    /\ spec_map' = build_spec_map(specs)
    /\ norm_pc' = "done"
    /\ UNCHANGED specs
    /\ UNCHANGED beside_norm

InitNorm ==
    /\ ChatIdle
    /\ NumIdle
    /\ RulesIdle
    /\ ApiIdle
    /\ IndexIdle
    /\ SearchIdle
    /\ specs \in SeqsUpTo(SpecRecords, MaxRecords)
    /\ spec_map = <<>>
    /\ norm_pc = "idle"

NextNorm == BuildSpecMap

SpecNorm == InitNorm /\ [][NextNorm]_vars

-----------------------------------------------------------------------------
(* rules_engine.py: _extract_float *)

\* A float is modelled by the rational it was read from: num / den, den > 0
COMMA == Ch(",")
SLASH == Ch("/")
DOT == Ch(".")
MINUS == Ch("-")

DigitValue ==
    ("0" :> 0) @@ ("1" :> 1) @@ ("2" :> 2) @@ ("3" :> 3) @@ ("4" :> 4) @@
    ("5" :> 5) @@ ("6" :> 6) @@ ("7" :> 7) @@ ("8" :> 8) @@ ("9" :> 9)

\* The character at position i, or the end of the text
EOT == [t |-> "eot"]
At(s, i) == IF i \in 1..Len(s) THEN s[i] ELSE EOT

\* \d
IsDigit(tok) == tok.t = "ch" /\ tok.c \in DOMAIN DigitValue

\* \d+ from the digit at i: the index of the last digit of the run
RECURSIVE digits_end(_, _)
digits_end(s, i) == IF IsDigit(At(s, i + 1)) THEN digits_end(s, i + 1) ELSE i

\* \s* from i: the index of the first character that is not whitespace
RECURSIVE skip_space(_, _)
skip_space(s, i) == IF IsSpace(At(s, i)) THEN skip_space(s, i + 1) ELSE i

\* float() of the digits s[i..j]
RECURSIVE digits_value(_, _, _)
digits_value(s, i, j) ==
    IF i > j THEN 0 ELSE digits_value(s, i, j - 1) * 10 + DigitValue[s[j].c]

RECURSIVE Pow10(_)
Pow10(n) == IF n = 0 THEN 1 ELSE 10 * Pow10(n - 1)

\* (-?\d+) at i: [ok, value, last]
NoGroup == [ok |-> FALSE, value |-> 0, last |-> 0]
signed_digits(s, i) ==
    LET neg == At(s, i) = MINUS
        a == IF neg THEN i + 1 ELSE i
    IN  IF ~IsDigit(At(s, a)) THEN NoGroup
        ELSE LET e == digits_end(s, a)
                 v == digits_value(s, a, e)
             IN  [ok |-> TRUE, value |-> IF neg THEN 0 - v ELSE v, last |-> e]

\* (\d+) at i
digits(s, i) ==
    IF ~IsDigit(At(s, i)) THEN NoGroup
    ELSE [ok |-> TRUE, value |-> digits_value(s, i, digits_end(s, i)),
          last |-> digits_end(s, i)]

NoMatch == [ok |-> FALSE, g1 |-> 0, g2 |-> 0, g3 |-> 0, scale |-> 1]

\* Line 38: (-?\d+)\s+(\d+)\s*/\s*(\d+) matched at i
match_mixed(s, i) ==
    LET whole == signed_digits(s, i) IN
    IF ~whole.ok \/ ~IsSpace(At(s, whole.last + 1)) THEN NoMatch
    ELSE LET numerator == digits(s, skip_space(s, whole.last + 1)) IN
         IF ~numerator.ok THEN NoMatch
         ELSE LET slash == skip_space(s, numerator.last + 1) IN
              IF At(s, slash) # SLASH THEN NoMatch
              ELSE LET denominator == digits(s, skip_space(s, slash + 1)) IN
                   IF ~denominator.ok THEN NoMatch
                   ELSE [ok |-> TRUE, g1 |-> whole.value, g2 |-> numerator.value,
                         g3 |-> denominator.value, scale |-> 1]

\* Line 48: (-?\d+)\s*/\s*(\d+) matched at i
match_frac(s, i) ==
    LET numerator == signed_digits(s, i) IN
    IF ~numerator.ok THEN NoMatch
    ELSE LET slash == skip_space(s, numerator.last + 1) IN
         IF At(s, slash) # SLASH THEN NoMatch
         ELSE LET denominator == digits(s, skip_space(s, slash + 1)) IN
              IF ~denominator.ok THEN NoMatch
              ELSE [ok |-> TRUE, g1 |-> numerator.value,
                    g2 |-> denominator.value, g3 |-> 0, scale |-> 1]

\* Line 57: -?\d+(?:\.\d+)? matched at i; the match is g1 / scale, of sign g3
match_plain(s, i) ==
    LET neg == At(s, i) = MINUS
        a == IF neg THEN i + 1 ELSE i
    IN  IF ~IsDigit(At(s, a)) THEN NoMatch
        ELSE LET e == digits_end(s, a)
                 decimals == IF At(s, e + 1) = DOT THEN digits(s, e + 2)
                             ELSE NoGroup
                 f == IF decimals.ok THEN decimals.last ELSE e
                 places == IF decimals.ok THEN f - (e + 1) ELSE 0
                 v == digits_value(s, a, e) * Pow10(places)
                        + (IF decimals.ok THEN decimals.value ELSE 0)
             IN  [ok |-> TRUE, g1 |-> IF neg THEN 0 - v ELSE v, g2 |-> 0,
                  g3 |-> 0, scale |-> Pow10(places)]

\* The match here, or else the one found further right
or_later(here, later) == IF here.ok THEN here ELSE later

\* re.search: the match at the leftmost position that has one
RECURSIVE search_mixed(_, _)
search_mixed(s, i) ==
    IF i > Len(s) THEN NoMatch
    ELSE or_later(match_mixed(s, i), search_mixed(s, i + 1))

RECURSIVE search_frac(_, _)
search_frac(s, i) ==
    IF i > Len(s) THEN NoMatch
    ELSE or_later(match_frac(s, i), search_frac(s, i + 1))

RECURSIVE search_plain(_, _)
search_plain(s, i) ==
    IF i > Len(s) THEN NoMatch
    ELSE or_later(match_plain(s, i), search_plain(s, i + 1))

\* Line 37: raw.replace(",", " ")
replace_commas(text) ==
    [i \in 1..Len(text) |-> IF text[i] = COMMA THEN SP ELSE text[i]]

\* Line 45: whole + (numerator / denominator if whole >= 0 else -numerator / denominator)
mixed_value_unsigned(whole, numerator, denominator) ==
    Float(whole * denominator + numerator, denominator)
mixed_value(whole, numerator, denominator) ==
    IF whole >= 0
    THEN Float(whole * denominator + numerator, denominator)
    ELSE Float(whole * denominator - numerator, denominator)

\* Lines 39-46: what a match of the mixed pattern returns, if it returns
mixed_result(match) ==
    IF match.ok /\ match.g3 # 0
    THEN mixed_value(match.g1, match.g2, match.g3)
    ELSE NoNumber

\* Lines 49-55: what a match of the fraction pattern returns, if it returns
frac_result(frac) ==
    IF frac.ok /\ frac.g2 # 0 THEN Float(frac.g1, frac.g2) ELSE NoNumber

\* Lines 58-62: what a match of the plain pattern returns
plain_result(match) ==
    IF match.ok THEN Float(match.g1, match.scale) ELSE NoNumber

\* The value one step returned, or else what the steps after it give
or_next(returned, next) == IF returned.some THEN returned ELSE next

\* Lines 34-63
extract_float_normalized(normalized) ==
    or_next(mixed_result(search_mixed(normalized, 1)),
            or_next(frac_result(search_frac(normalized, 1)),
                    plain_result(search_plain(normalized, 1))))
extract_float(text) ==
    IF text = <<>> THEN NoNumber
    ELSE extract_float_normalized(replace_commas(text))

\* Comparison of floats
FloatEq(x, y) == x.some = y.some /\ x.num * y.den = y.num * x.den
FloatLeq(x, y) == x.num * y.den <= y.num * x.den

MaxNumLen == 4

Str(cs) == [i \in 1..Len(cs) |-> Ch(cs[i])]
NumChars == {Ch("1"), Ch("0"), Ch("4"), SP, SLASH, DOT, MINUS, COMMA}

\* The texts _extract_float is given: spec values as scraped
NumTexts ==
    SeqsUpTo(NumChars, MaxNumLen)
        \cup {Str(<<"1", " ", "1", "/", "4">>), Str(<<"3", "/", "4">>),
              Str(<<"1", "2", ".", "5">>), Str(<<"n", "/", "a">>),
              Str(<<"1", ",", "2", "3", "4">>), Str(<<"-", "2", " ", "1", "/", "4">>),
              Str(<<"1", " ", "1", "/", "0">>), Str(<<"1", " ", "/", " ", "0", "4">>)}

ExtractFloat ==
    /\ num_pc = "idle"
    /\ number' = extract_float(num_raw)
    /\ num_pc' = "done"
    /\ UNCHANGED num_raw
    /\ UNCHANGED beside_num

InitNum ==
    /\ ChatIdle
    /\ NormIdle
    /\ RulesIdle
    /\ ApiIdle
    /\ IndexIdle
    /\ SearchIdle
    /\ num_raw \in NumTexts
    /\ number = NoNumber
    /\ num_pc = "idle"

NextNum == ExtractFloat

SpecNum == InitNum /\ [][NextNum]_vars

-----------------------------------------------------------------------------
(* rules_engine.py: the evaluators *)

\* The attribute keys the evaluators look up
KEY_bathroom_floor_use ==
    Str(<<"b", "a", "t", "h", "r", "o", "o", "m", " ", "f", "l", "o", "o",
          "r", " ", "u", "s", "e">>)
KEY_water_resistance ==
    Str(<<"w", "a", "t", "e", "r", " ", "r", "e", "s", "i", "s", "t", "a",
          "n", "c", "e">>)
KEY_placement_location ==
    Str(<<"p", "l", "a", "c", "e", "m", "e", "n", "t", " ", "l", "o", "c",
          "a", "t", "i", "o", "n">>)
KEY_shower_surface ==
    Str(<<"s", "h", "o", "w", "e", "r", " ", "s", "u", "r", "f", "a", "c",
          "e">>)
KEY_dcof_value == Str(<<"d", "c", "o", "f", " ", "v", "a", "l", "u", "e">>)
KEY_dcof == Str(<<"d", "c", "o", "f">>)
KEY_fireplace_surround_use ==
    Str(<<"f", "i", "r", "e", "p", "l", "a", "c", "e", " ", "s", "u", "r",
          "r", "o", "u", "n", "d", " ", "u", "s", "e">>)
KEY_radiant_heat_compatible ==
    Str(<<"r", "a", "d", "i", "a", "n", "t", " ", "h", "e", "a", "t", " ",
          "c", "o", "m", "p", "a", "t", "i", "b", "l", "e">>)
KEY_radiant_heat_compatibility ==
    Str(<<"r", "a", "d", "i", "a", "n", "t", " ", "h", "e", "a", "t", " ",
          "c", "o", "m", "p", "a", "t", "i", "b", "i", "l", "i", "t", "y">>)
KEY_frost_resistance ==
    Str(<<"f", "r", "o", "s", "t", " ", "r", "e", "s", "i", "s", "t", "a",
          "n", "c", "e">>)
KEY_water_absorption ==
    Str(<<"w", "a", "t", "e", "r", " ", "a", "b", "s", "o", "r", "p", "t",
          "i", "o", "n">>)
KEY_installation_options ==
    Str(<<"i", "n", "s", "t", "a", "l", "l", "a", "t", "i", "o", "n", " ",
          "o", "p", "t", "i", "o", "n", "s">>)
KEY_pei_rating == Str(<<"p", "e", "i", " ", "r", "a", "t", "i", "n", "g">>)
KEY_floor_suitability_rating ==
    Str(<<"f", "l", "o", "o", "r", " ", "s", "u", "i", "t", "a", "b", "i",
          "l", "i", "t", "y", " ", "r", "a", "t", "i", "n", "g">>)
KEY_material == Str(<<"m", "a", "t", "e", "r", "i", "a", "l">>)
KEY_product_thickness ==
    Str(<<"p", "r", "o", "d", "u", "c", "t", " ", "t", "h", "i", "c", "k",
          "n", "e", "s", "s">>)

\* The keywords the evaluators search for
KW_not_suitable ==
    Str(<<"n", "o", "t", " ", "s", "u", "i", "t", "a", "b", "l", "e">>)
KW_suitable == Str(<<"s", "u", "i", "t", "a", "b", "l", "e">>)
KW_yes == Str(<<"y", "e", "s">>)
KW_not_suitable_for_shower_floors ==
    Str(<<"n", "o", "t", " ", "s", "u", "i", "t", "a", "b", "l", "e", " ",
          "f", "o", "r", " ", "s", "h", "o", "w", "e", "r", " ", "f", "l",
          "o", "o", "r", "s">>)
KW_not_suitable_for_shower_floor ==
    Str(<<"n", "o", "t", " ", "s", "u", "i", "t", "a", "b", "l", "e", " ",
          "f", "o", "r", " ", "s", "h", "o", "w", "e", "r", " ", "f", "l",
          "o", "o", "r">>)
KW_suitable_for_shower_floors ==
    Str(<<"s", "u", "i", "t", "a", "b", "l", "e", " ", "f", "o", "r", " ",
          "s", "h", "o", "w", "e", "r", " ", "f", "l", "o", "o", "r", "s">>)
KW_suitable_for_shower_floor ==
    Str(<<"s", "u", "i", "t", "a", "b", "l", "e", " ", "f", "o", "r", " ",
          "s", "h", "o", "w", "e", "r", " ", "f", "l", "o", "o", "r">>)
KW_suitable_for_shower_walls ==
    Str(<<"s", "u", "i", "t", "a", "b", "l", "e", " ", "f", "o", "r", " ",
          "s", "h", "o", "w", "e", "r", " ", "w", "a", "l", "l", "s">>)
KW_not_suitable_for_shower_walls ==
    Str(<<"n", "o", "t", " ", "s", "u", "i", "t", "a", "b", "l", "e", " ",
          "f", "o", "r", " ", "s", "h", "o", "w", "e", "r", " ", "w", "a",
          "l", "l", "s">>)
KW_no == Str(<<"n", "o">>)
KW_compatible == Str(<<"c", "o", "m", "p", "a", "t", "i", "b", "l", "e">>)
KW_not_compatible ==
    Str(<<"n", "o", "t", " ", "c", "o", "m", "p", "a", "t", "i", "b", "l",
          "e">>)
KW_indoor_only ==
    Str(<<"i", "n", "d", "o", "o", "r", " ", "o", "n", "l", "y">>)
KW_not_resistant ==
    Str(<<"n", "o", "t", " ", "r", "e", "s", "i", "s", "t", "a", "n", "t">>)
KW_outdoor == Str(<<"o", "u", "t", "d", "o", "o", "r">>)
KW_resistant == Str(<<"r", "e", "s", "i", "s", "t", "a", "n", "t">>)
KW_rated == Str(<<"r", "a", "t", "e", "d">>)
KW_not_water == Str(<<"n", "o", "t", " ", "w", "a", "t", "e", "r">>)
KW_not_recommended ==
    Str(<<"n", "o", "t", " ", "r", "e", "c", "o", "m", "m", "e", "n", "d",
          "e", "d">>)
KW_floor_only == Str(<<"f", "l", "o", "o", "r", " ", "o", "n", "l", "y">>)
KW_wall == Str(<<"w", "a", "l", "l">>)
KW_heavy_commercial ==
    Str(<<"h", "e", "a", "v", "y", " ", "c", "o", "m", "m", "e", "r", "c",
          "i", "a", "l">>)
KW_commercial == Str(<<"c", "o", "m", "m", "e", "r", "c", "i", "a", "l">>)
KW_residential_only ==
    Str(<<"r", "e", "s", "i", "d", "e", "n", "t", "i", "a", "l", " ", "o",
          "n", "l", "y">>)
KW_light == Str(<<"l", "i", "g", "h", "t">>)
KW_wall_only == Str(<<"w", "a", "l", "l", " ", "o", "n", "l", "y">>)
KW_indoor == Str(<<"i", "n", "d", "o", "o", "r">>)
KW_waterproof == Str(<<"w", "a", "t", "e", "r", "p", "r", "o", "o", "f">>)
KW_water_resistant ==
    Str(<<"w", "a", "t", "e", "r", " ", "r", "e", "s", "i", "s", "t", "a",
          "n", "t">>)
KW_water_resistent ==
    Str(<<"w", "a", "t", "e", "r", "-", "r", "e", "s", "i", "s", "t", "e",
          "n", "t">>)
KW_wet_walls == Str(<<"w", "e", "t", " ", "w", "a", "l", "l", "s">>)
KW_exterior == Str(<<"e", "x", "t", "e", "r", "i", "o", "r">>)
KW_heavy == Str(<<"h", "e", "a", "v", "y">>)
KW_garage == Str(<<"g", "a", "r", "a", "g", "e">>)
KW_floor == Str(<<"f", "l", "o", "o", "r">>)
KW_light_wall == Str(<<"l", "i", "g", "h", "t", " ", "w", "a", "l", "l">>)
KW_wood == Str(<<"w", "o", "o", "d">>)
KW_bamboo == Str(<<"b", "a", "m", "b", "o", "o">>)
KW_cork == Str(<<"c", "o", "r", "k">>)
KW_restaurant == Str(<<"r", "e", "s", "t", "a", "u", "r", "a", "n", "t">>)
KW_no_then_space == Str(<<"n", "o", " ">>)

\* An assignment `name = value`: the value is computed once and the rest of
\* the function reads it under that name
With(value, rest(_)) == rest(value)

\* dict.get(key, "")
get(m, key) == IF HasKey(m, key) THEN Lookup(m, key) ELSE <<>>

\* `keyword in low`
in_text(keyword, low) ==
    \E i \in 0..(Len(low) - Len(keyword)) :
        SubSeq(low, i + 1, i + Len(keyword)) = keyword

\* _contains_any (lines 66-70)
contains_any(text, keywords) ==
    text # <<>> /\ \E keyword \in keywords : in_text(keyword, lower(text))

\* `a or b` on strings
or_else(a, b) == IF a # <<>> THEN a ELSE b

\* Comparisons of a parsed value with a threshold num / den
at_most(x, num, den) == FloatLeq(x, Float(num, den))
at_least(x, num, den) == FloatLeq(Float(num, den), x)
below(x, num, den) == ~FloatLeq(Float(num, den), x)
above(x, num, den) == ~FloatLeq(x, Float(num, den))

\* `if value: supporting[key] = value`, for the entries passed so far
supporting_of(entries) == SelectSeq(entries, LAMBDA e : e.val # <<>>)

mk_response_rounded(use_case, ok, hundredths, supporting) ==
    [use_case |-> use_case, ok |-> ok,
     confidence |-> Float((hundredths + 5) \div 10, 10),
     supporting_specs |-> supporting]

\* _mk_response (lines 73-88); the confidence is the float hundredths / 100
mk_response(use_case, ok, hundredths, supporting) ==
    [use_case |-> use_case, ok |-> ok, confidence |-> Float(hundredths, 100),
     supporting_specs |-> supporting]

NOT_WATER == {KW_not_water, KW_not_resistant}
NOT_WATER_OR_RECOMMENDED == {KW_not_water, KW_not_resistant, KW_not_recommended}
FROST_NEGATIVE == {KW_no, KW_not_resistant}
FROST_POSITIVE == {KW_yes, KW_resistant, KW_rated}

check_bathroom_floor_suitable_first(detail) ==
    With(build_spec_map(detail), LAMBDA spec_map_ :
    LET bf == get(spec_map_, KEY_bathroom_floor_use)
        low == lower(bf)
        water == get(spec_map_, KEY_water_resistance)
        placement == get(spec_map_, KEY_placement_location)
        s1 == supporting_of(<<Entry(KEY_bathroom_floor_use, bf)>>)
        s2 == supporting_of(<<Entry(KEY_bathroom_floor_use, bf),
                              Entry(KEY_water_resistance, water),
                              Entry(KEY_placement_location, placement)>>)
    IN  IF bf # <<>> /\ (in_text(KW_suitable, low) \/ in_text(KW_yes, low))
        THEN mk_response("bathroom_floor", "True", 90, s1)
        ELSE IF bf # <<>> /\ in_text(KW_not_suitable, low)
        THEN mk_response("bathroom_floor", "False", 95, s1)
        ELSE IF water # <<>> \/ placement # <<>>
        THEN mk_response("bathroom_floor", "None", 60, s2)
        ELSE mk_response("bathroom_floor", "None", 0, s2))

\* Lines 91-142
check_bathroom_floor(detail) ==
    With(build_spec_map(detail), LAMBDA spec_map_ :
    LET bf == get(spec_map_, KEY_bathroom_floor_use)
        low == lower(bf)
        water == get(spec_map_, KEY_water_resistance)
        placement == get(spec_map_, KEY_placement_location)
        s1 == supporting_of(<<Entry(KEY_bathroom_floor_use, bf)>>)
        s2 == supporting_of(<<Entry(KEY_bathroom_floor_use, bf),
                              Entry(KEY_water_resistance, water),
                              Entry(KEY_placement_location, placement)>>)
    IN  IF bf # <<>> /\ in_text(KW_not_suitable, low)
        THEN mk_response("bathroom_floor", "False", 95, s1)
        ELSE IF bf # <<>> /\ (in_text(KW_suitable, low) \/ in_text(KW_yes, low))
        THEN mk_response("bathroom_floor", "True", 90, s1)
        ELSE IF water # <<>> \/ placement # <<>>
        THEN mk_response("bathroom_floor", "None", 60, s2)
        ELSE mk_response("bathroom_floor", "None", 0, s2))

\* Lines 145-183
check_shower_floor(detail) ==
    With(build_spec_map(detail), LAMBDA spec_map_ :
    LET shower_surface == get(spec_map_, KEY_shower_surface)
        low == lower(shower_surface)
        dcof == or_else(get(spec_map_, KEY_dcof_value), get(spec_map_, KEY_dcof))
        s1 == supporting_of(<<Entry(KEY_shower_surface, shower_surface)>>)
        s2 == supporting_of(<<Entry(KEY_shower_surface, shower_surface),
                              Entry(KEY_dcof, dcof)>>)
    IN  IF /\ shower_surface # <<>>
           /\ \/ in_text(KW_not_suitable_for_shower_floors, low)
              \/ in_text(KW_not_suitable_for_shower_floor, low)
        THEN mk_response("shower_floor", "False", 95, s1)
        ELSE IF /\ shower_surface # <<>>
                /\ \/ in_text(KW_suitable_for_shower_floors, low)
                   \/ in_text(KW_suitable_for_shower_floor, low)
        THEN mk_response("shower_floor", "True", 90, s1)
        ELSE mk_response("shower_floor", "None", 40, s2))

\* Lines 186-220
check_shower_wall(detail) ==
    With(build_spec_map(detail), LAMBDA spec_map_ :
    LET shower_surface == get(spec_map_, KEY_shower_surface)
        low == lower(shower_surface)
        s1 == supporting_of(<<Entry(KEY_shower_surface, shower_surface)>>)
    IN  IF shower_surface # <<>> /\ in_text(KW_suitable_for_shower_walls, low)
        THEN mk_response("shower_wall", "True", 90, s1)
        ELSE IF /\ shower_surface # <<>>
                /\ in_text(KW_not_suitable_for_shower_walls, low)
        THEN mk_response("shower_wall", "False", 95, s1)
        ELSE mk_response("shower_wall", "None", 40, s1))

\* Lines 223-257
check_fireplace_surround(detail) ==
    With(build_spec_map(detail), LAMBDA spec_map_ :
    LET fp == get(spec_map_, KEY_fireplace_surround_use)
        low == lower(fp)
        s1 == supporting_of(<<Entry(KEY_fireplace_surround_use, fp)>>)
    IN  IF fp # <<>> /\ (in_text(KW_yes, low) \/ in_text(KW_suitable, low))
        THEN mk_response("fireplace_surround", "True", 90, s1)
        ELSE IF fp # <<>> /\ (in_text(KW_no, low) \/ in_text(KW_not_suitable, low))
        THEN mk_response("fireplace_surround", "False", 95, s1)
        ELSE mk_response("fireplace_surround", "None", 30, s1))

\* Lines 260-296
check_radiant_heat(detail) ==
    With(build_spec_map(detail), LAMBDA spec_map_ :
    LET rh == or_else(get(spec_map_, KEY_radiant_heat_compatible),
                      get(spec_map_, KEY_radiant_heat_compatibility))
        low == lower(rh)
        s1 == supporting_of(<<Entry(KEY_radiant_heat_compatible, rh)>>)
    IN  IF rh # <<>> /\ (in_text(KW_yes, low) \/ in_text(KW_compatible, low))
        THEN mk_response("radiant_heat", "True", 90, s1)
        ELSE IF rh # <<>> /\ (in_text(KW_no, low) \/ in_text(KW_not_compatible, low))
        THEN mk_response("radiant_heat", "False", 95, s1)
        ELSE mk_response("radiant_heat", "None", 30, s1))

\* Lines 299-380
check_outdoor_patio(detail) ==
    With(build_spec_map(detail), LAMBDA spec_map_ :
    LET placement == get(spec_map_, KEY_placement_location)
        frost == get(spec_map_, KEY_frost_resistance)
        water_absorption == get(spec_map_, KEY_water_absorption)
        water_resistance == get(spec_map_, KEY_water_resistance)
        water_abs_val == extract_float(water_absorption)
        freeze_ready ==
            \/ placement # <<>> /\ in_text(KW_outdoor, lower(placement))
            \/ frost # <<>> /\ contains_any(frost, FROST_POSITIVE)
            \/ water_abs_val.some /\ at_most(water_abs_val, 5, 10)
        s1 == supporting_of(<<Entry(KEY_placement_location, placement)>>)
        s2 == supporting_of(<<Entry(KEY_placement_location, placement),
                              Entry(KEY_frost_resistance, frost)>>)
        s3 == supporting_of(<<Entry(KEY_placement_location, placement),
                              Entry(KEY_frost_resistance, frost),
                              Entry(KEY_water_absorption, water_absorption)>>)
        s4 == supporting_of(<<Entry(KEY_placement_location, placement),
                              Entry(KEY_frost_resistance, frost),
                              Entry(KEY_water_absorption, water_absorption),
                              Entry(KEY_water_resistance, water_resistance)>>)
    IN  IF placement # <<>> /\ in_text(KW_indoor_only, lower(placement))
        THEN mk_response("outdoor_patio", "False", 90, s1)
        ELSE IF frost # <<>> /\ contains_any(frost, FROST_NEGATIVE)
        THEN mk_response("outdoor_patio", "False", 90, s2)
        ELSE IF freeze_ready
        THEN mk_response("outdoor_patio", "True", 85, s3)
        ELSE IF /\ water_resistance # <<>>
                /\ contains_any(water_resistance,
                                NOT_WATER_OR_RECOMMENDED \cup {KW_no_then_space})
        THEN mk_response("outdoor_patio", "False", 80, s4)
        ELSE mk_response("outdoor_patio", "None", 40, s4))

check_pool_deck_water_first(detail) ==
    With(build_spec_map(detail), LAMBDA spec_map_ :
    LET placement == get(spec_map_, KEY_placement_location)
        dcof == or_else(get(spec_map_, KEY_dcof_value), get(spec_map_, KEY_dcof))
        water_resistance == get(spec_map_, KEY_water_resistance)
        dcof_value == extract_float(dcof)
        s1 == supporting_of(<<Entry(KEY_water_resistance, water_resistance)>>)
        s2 == supporting_of(<<Entry(KEY_water_resistance, water_resistance),
                              Entry(KEY_placement_location, placement)>>)
        s3 == supporting_of(<<Entry(KEY_water_resistance, water_resistance),
                              Entry(KEY_placement_location, placement),
                              Entry(KEY_dcof, dcof)>>)
    IN  IF water_resistance # <<>> /\ contains_any(water_resistance, NOT_WATER)
        THEN mk_response("pool_deck", "False", 95, s1)
        ELSE IF placement # <<>> /\ ~in_text(KW_outdoor, lower(placement))
        THEN mk_response("pool_deck", "False", 85, s2)
        ELSE IF dcof # <<>> /\ dcof_value.some
        THEN IF at_least(dcof_value, 42, 100)
             THEN mk_response("pool_deck", "True", 90, s3)
             ELSE mk_response("pool_deck", "False", 85, s3)
        ELSE mk_response("pool_deck", "None", 40, s3))

\* Lines 383-444
check_pool_deck(detail) ==
    With(build_spec_map(detail), LAMBDA spec_map_ :
    LET placement == get(spec_map_, KEY_placement_location)
        dcof == or_else(get(spec_map_, KEY_dcof_value), get(spec_map_, KEY_dcof))
        water_resistance == get(spec_map_, KEY_water_resistance)
        dcof_value == extract_float(dcof)
        s1 == supporting_of(<<Entry(KEY_placement_location, placement)>>)
        s2 == supporting_of(<<Entry(KEY_placement_location, placement),
                              Entry(KEY_water_resistance, water_resistance)>>)
        s3 == supporting_of(<<Entry(KEY_placement_location, placement),
                              Entry(KEY_water_resistance, water_resistance),
                              Entry(KEY_dcof, dcof)>>)
    IN  IF placement # <<>> /\ ~in_text(KW_outdoor, lower(placement))
        THEN mk_response("pool_deck", "False", 85, s1)
        ELSE IF water_resistance # <<>> /\ contains_any(water_resistance, NOT_WATER)
        THEN mk_response("pool_deck", "False", 95, s2)
        ELSE IF dcof # <<>> /\ dcof_value.some
        THEN IF at_least(dcof_value, 42, 100)
             THEN mk_response("pool_deck", "True", 90, s3)
             ELSE mk_response("pool_deck", "False", 85, s3)
        ELSE mk_response("pool_deck", "None", 40, s3))

\* Lines 447-508
check_kitchen_backsplash(detail) ==
    With(build_spec_map(detail), LAMBDA spec_map_ :
    LET install == get(spec_map_, KEY_installation_options)
        placement == get(spec_map_, KEY_placement_location)
        water_resistance == get(spec_map_, KEY_water_resistance)
        s1 == supporting_of(<<Entry(KEY_installation_options, install)>>)
        s2 == supporting_of(<<Entry(KEY_installation_options, install),
                              Entry(KEY_placement_location, placement)>>)
        s3 == supporting_of(<<Entry(KEY_installation_options, install),
                              Entry(KEY_placement_location, placement),
                              Entry(KEY_water_resistance, water_resistance)>>)
    IN  IF install # <<>> /\ in_text(KW_floor_only, lower(install))
        THEN mk_response("kitchen_backsplash", "False", 95, s1)
        ELSE IF install # <<>> /\ in_text(KW_wall, lower(install))
        THEN IF placement # <<>> /\ in_text(KW_outdoor, lower(placement))
             THEN mk_response("kitchen_backsplash", "True", 75, s2)
             ELSE mk_response("kitchen_backsplash", "True", 85, s2)
        ELSE IF water_resistance # <<>> /\ contains_any(water_resistance, NOT_WATER)
        THEN mk_response("kitchen_backsplash", "False", 80, s3)
        ELSE mk_response("kitchen_backsplash", "None", 40, s3))

check_commercial_heavy_floor_from_3(detail) ==
    With(build_spec_map(detail), LAMBDA spec_map_ :
    LET pei == get(spec_map_, KEY_pei_rating)
        floor_rating == get(spec_map_, KEY_floor_suitability_rating)
        pei_value == extract_float(pei)
        s1 == supporting_of(<<Entry(KEY_pei_rating, pei)>>)
        s2 == supporting_of(<<Entry(KEY_pei_rating, pei),
                              Entry(KEY_floor_suitability_rating, floor_rating)>>)
    IN  IF pei # <<>> /\ pei_value.some /\ at_least(pei_value, 3, 1)
        THEN mk_response("commercial_heavy_floor", "True", 90, s1)
        ELSE IF pei # <<>> /\ pei_value.some /\ at_most(pei_value, 2, 1)
        THEN mk_response("commercial_heavy_floor", "False", 95, s1)
        ELSE IF /\ floor_rating # <<>>
                /\ contains_any(floor_rating, {KW_heavy_commercial, KW_commercial})
        THEN mk_response("commercial_heavy_floor", "True", 85, s2)
        ELSE IF /\ floor_rating # <<>>
                /\ contains_any(floor_rating,
                                {KW_residential_only, KW_light, KW_wall_only})
        THEN mk_response("commercial_heavy_floor", "False", 90, s2)
        ELSE mk_response("commercial_heavy_floor", "None", 40, s2))

\* Lines 511-569
check_commercial_heavy_floor(detail) ==
    With(build_spec_map(detail), LAMBDA spec_map_ :
    LET pei == get(spec_map_, KEY_pei_rating)
        floor_rating == get(spec_map_, KEY_floor_suitability_rating)
        pei_value == extract_float(pei)
        s1 == supporting_of(<<Entry(KEY_pei_rating, pei)>>)
        s2 == supporting_of(<<Entry(KEY_pei_rating, pei),
                              Entry(KEY_floor_suitability_rating, floor_rating)>>)
    IN  IF pei # <<>> /\ pei_value.some /\ at_least(pei_value, 4, 1)
        THEN mk_response("commercial_heavy_floor", "True", 90, s1)
        ELSE IF pei # <<>> /\ pei_value.some /\ at_most(pei_value, 2, 1)
        THEN mk_response("commercial_heavy_floor", "False", 95, s1)
        ELSE IF /\ floor_rating # <<>>
                /\ contains_any(floor_rating, {KW_heavy_commercial, KW_commercial})
        THEN mk_response("commercial_heavy_floor", "True", 85, s2)
        ELSE IF /\ floor_rating # <<>>
                /\ contains_any(floor_rating,
                                {KW_residential_only, KW_light, KW_wall_only})
        THEN mk_response("commercial_heavy_floor", "False", 90, s2)
        ELSE mk_response("commercial_heavy_floor", "None", 40, s2))

\* Lines 572-632
check_laundry_room_floor(detail) ==
    With(build_spec_map(detail), LAMBDA spec_map_ :
    LET water == get(spec_map_, KEY_water_resistance)
        bathroom == get(spec_map_, KEY_bathroom_floor_use)
        placement == get(spec_map_, KEY_placement_location)
        s1 == supporting_of(<<Entry(KEY_water_resistance, water)>>)
        s2 == supporting_of(<<Entry(KEY_water_resistance, water),
                              Entry(KEY_bathroom_floor_use, bathroom)>>)
        s3 == supporting_of(<<Entry(KEY_water_resistance, water),
                              Entry(KEY_bathroom_floor_use, bathroom),
                              Entry(KEY_placement_location, placement)>>)
    IN  IF water # <<>> /\ contains_any(water, NOT_WATER)
        THEN mk_response("laundry_room_floor", "False", 90, s1)
        ELSE IF bathroom # <<>> /\ contains_any(bathroom, {KW_not_suitable})
        THEN mk_response("laundry_room_floor", "False", 90, s2)
        ELSE IF bathroom # <<>> /\ contains_any(bathroom, {KW_suitable, KW_yes})
        THEN mk_response("laundry_room_floor", "True", 85, s2)
        ELSE IF placement # <<>> /\ in_text(KW_indoor, lower(placement))
        THEN mk_response("laundry_room_floor", "True", 60, s3)
        ELSE mk_response("laundry_room_floor", "None", 30, s3))

\* Lines 635-696
check_basement_floor(detail) ==
    With(build_spec_map(detail), LAMBDA spec_map_ :
    LET placement == get(spec_map_, KEY_placement_location)
        water == get(spec_map_, KEY_water_resistance)
        absorption == get(spec_map_, KEY_water_absorption)
        value == extract_float(absorption)
        s1 == supporting_of(<<Entry(KEY_placement_location, placement)>>)
        s2 == supporting_of(<<Entry(KEY_placement_location, placement),
                              Entry(KEY_water_resistance, water)>>)
        s3 == supporting_of(<<Entry(KEY_placement_location, placement),
                              Entry(KEY_water_resistance, water),
                              Entry(KEY_water_absorption, absorption)>>)
    IN  IF placement # <<>> /\ ~in_text(KW_indoor, lower(placement))
        THEN mk_response("basement_floor", "False", 80, s1)
        ELSE IF water # <<>> /\ contains_any(water, NOT_WATER)
        THEN mk_response("basement_floor", "False", 90, s2)
        ELSE IF /\ water # <<>>
                /\ contains_any(water, {KW_waterproof, KW_water_resistant,
                                        KW_water_resistent})
        THEN mk_response("basement_floor", "True", 80, s2)
        ELSE IF absorption # <<>> /\ value.some /\ at_most(value, 5, 10)
        THEN mk_response("basement_floor", "True", 75, s3)
        ELSE mk_response("basement_floor", "None", 35, s3))

check_steam_shower_enclosure_two_signals(detail) ==
    With(build_spec_map(detail), LAMBDA spec_map_ :
    LET shower_surface == get(spec_map_, KEY_shower_surface)
        water_absorption == get(spec_map_, KEY_water_absorption)
        water_resistance == get(spec_map_, KEY_water_resistance)
        placement == get(spec_map_, KEY_placement_location)
        low == lower(shower_surface)
        wall_ready ==
            /\ shower_surface # <<>>
            /\ \/ in_text(KW_suitable_for_shower_walls, low)
               \/ in_text(KW_wet_walls, low)
        abs_val == extract_float(water_absorption)
        dense ==
            water_absorption # <<>> /\ abs_val.some /\ at_most(abs_val, 5, 10)
        s1 == supporting_of(<<Entry(KEY_shower_surface, shower_surface)>>)
        s2 == supporting_of(<<Entry(KEY_shower_surface, shower_surface),
                              Entry(KEY_water_absorption, water_absorption)>>)
        s3 == supporting_of(<<Entry(KEY_shower_surface, shower_surface),
                              Entry(KEY_water_absorption, water_absorption),
                              Entry(KEY_water_resistance, water_resistance)>>)
        s4 == supporting_of(<<Entry(KEY_shower_surface, shower_surface),
                              Entry(KEY_water_absorption, water_absorption),
                              Entry(KEY_water_resistance, water_resistance),
                              Entry(KEY_placement_location, placement)>>)
    IN  IF /\ shower_surface # <<>>
           /\ in_text(KW_not_suitable_for_shower_walls, low)
        THEN mk_response("steam_shower_enclosure", "False", 95, s1)
        ELSE IF /\ water_absorption # <<>> /\ abs_val.some
                /\ ~at_most(abs_val, 5, 10) /\ above(abs_val, 3, 1)
        THEN mk_response("steam_shower_enclosure", "False", 90, s2)
        ELSE IF /\ water_resistance # <<>>
                /\ contains_any(water_resistance, NOT_WATER_OR_RECOMMENDED)
        THEN mk_response("steam_shower_enclosure", "False", 90, s3)
        ELSE IF wall_ready /\ dense
        THEN mk_response("steam_shower_enclosure", "True", 85, s4)
        ELSE IF wall_ready \/ dense
        THEN mk_response("steam_shower_enclosure", "None", 50, s4)
        ELSE mk_response("steam_shower_enclosure", "None", 20, s4))

\* Lines 699-783
check_steam_shower_enclosure(detail) ==
    With(build_spec_map(detail), LAMBDA spec_map_ :
    LET shower_surface == get(spec_map_, KEY_shower_surface)
        water_absorption == get(spec_map_, KEY_water_absorption)
        water_resistance == get(spec_map_, KEY_water_resistance)
        placement == get(spec_map_, KEY_placement_location)
        low == lower(shower_surface)
        wall_ready ==
            /\ shower_surface # <<>>
            /\ \/ in_text(KW_suitable_for_shower_walls, low)
               \/ in_text(KW_wet_walls, low)
        abs_val == extract_float(water_absorption)
        dense ==
            water_absorption # <<>> /\ abs_val.some /\ at_most(abs_val, 5, 10)
        s1 == supporting_of(<<Entry(KEY_shower_surface, shower_surface)>>)
        s2 == supporting_of(<<Entry(KEY_shower_surface, shower_surface),
                              Entry(KEY_water_absorption, water_absorption)>>)
        s3 == supporting_of(<<Entry(KEY_shower_surface, shower_surface),
                              Entry(KEY_water_absorption, water_absorption),
                              Entry(KEY_water_resistance, water_resistance)>>)
        s4 == supporting_of(<<Entry(KEY_shower_surface, shower_surface),
                              Entry(KEY_water_absorption, water_absorption),
                              Entry(KEY_water_resistance, water_resistance),
                              Entry(KEY_placement_location, placement)>>)
    IN  IF /\ shower_surface # <<>>
           /\ in_text(KW_not_suitable_for_shower_walls, low)
        THEN mk_response("steam_shower_enclosure", "False", 95, s1)
        ELSE IF /\ water_absorption # <<>> /\ abs_val.some
                /\ ~at_most(abs_val, 5, 10) /\ above(abs_val, 3, 1)
        THEN mk_response("steam_shower_enclosure", "False", 90, s2)
        ELSE IF /\ water_resistance # <<>>
                /\ contains_any(water_resistance, NOT_WATER_OR_RECOMMENDED)
        THEN mk_response("steam_shower_enclosure", "False", 90, s3)
        ELSE IF wall_ready /\ dense /\ water_resistance # <<>>
        THEN mk_response("steam_shower_enclosure", "True", 85, s4)
        ELSE IF wall_ready \/ dense
        THEN mk_response("steam_shower_enclosure", "None", 50, s4)
        ELSE mk_response("steam_shower_enclosure", "None", 20, s4))

\* Lines 786-869
check_outdoor_kitchen_counter(detail) ==
    With(build_spec_map(detail), LAMBDA spec_map_ :
    LET placement == get(spec_map_, KEY_placement_location)
        fireplace == get(spec_map_, KEY_fireplace_surround_use)
        water_resistance == get(spec_map_, KEY_water_resistance)
        material == get(spec_map_, KEY_material)
        outdoor_ready ==
            /\ placement # <<>>
            /\ \/ in_text(KW_outdoor, lower(placement))
               \/ in_text(KW_exterior, lower(placement))
        fire_safe ==
            /\ fireplace # <<>>
            /\ \/ in_text(KW_yes, lower(fireplace))
               \/ in_text(KW_suitable, lower(fireplace))
        s1 == supporting_of(<<Entry(KEY_placement_location, placement)>>)
        s2 == supporting_of(<<Entry(KEY_placement_location, placement),
                              Entry(KEY_fireplace_surround_use, fireplace)>>)
        s3 == supporting_of(<<Entry(KEY_placement_location, placement),
                              Entry(KEY_fireplace_surround_use, fireplace),
                              Entry(KEY_water_resistance, water_resistance)>>)
        s4 == supporting_of(<<Entry(KEY_placement_location, placement),
                              Entry(KEY_fireplace_surround_use, fireplace),
                              Entry(KEY_water_resistance, water_resistance),
                              Entry(KEY_material, material)>>)
    IN  IF placement # <<>> /\ in_text(KW_indoor_only, lower(placement))
        THEN mk_response("outdoor_kitchen_counter", "False", 90, s1)
        ELSE IF /\ fireplace # <<>>
                /\ \/ in_text(KW_no, lower(fireplace))
                   \/ in_text(KW_not_suitable, lower(fireplace))
        THEN mk_response("outdoor_kitchen_counter", "False", 95, s2)
        ELSE IF /\ water_resistance # <<>>
                /\ contains_any(water_resistance, NOT_WATER_OR_RECOMMENDED)
        THEN mk_response("outdoor_kitchen_counter", "False", 90, s3)
        ELSE IF outdoor_ready /\ fire_safe
        THEN mk_response("outdoor_kitchen_counter", "True", 85, s4)
        ELSE IF outdoor_ready \/ fire_safe
        THEN mk_response("outdoor_kitchen_counter", "None", 45, s4)
        ELSE mk_response("outdoor_kitchen_counter", "None", 25, s4))

\* Lines 872-971
check_garage_workshop_floor(detail) ==
    With(build_spec_map(detail), LAMBDA spec_map_ :
    LET placement == get(spec_map_, KEY_placement_location)
        installation == get(spec_map_, KEY_installation_options)
        water_resistance == get(spec_map_, KEY_water_resistance)
        pei == get(spec_map_, KEY_pei_rating)
        floor_rating == get(spec_map_, KEY_floor_suitability_rating)
        dcof == or_else(get(spec_map_, KEY_dcof_value), get(spec_map_, KEY_dcof))
        value == extract_float(dcof)
        heavy_rating ==
            /\ floor_rating # <<>>
            /\ contains_any(floor_rating, {KW_heavy, KW_commercial, KW_garage})
        pei_val == extract_float(pei)
        pei_ready == pei # <<>> /\ pei_val.some /\ at_least(pei_val, 4, 1)
        s1 == supporting_of(<<Entry(KEY_placement_location, placement)>>)
        s2 == supporting_of(<<Entry(KEY_placement_location, placement),
                              Entry(KEY_installation_options, installation)>>)
        s3 == supporting_of(<<Entry(KEY_placement_location, placement),
                              Entry(KEY_installation_options, installation),
                              Entry(KEY_water_resistance, water_resistance)>>)
        s4 == supporting_of(<<Entry(KEY_placement_location, placement),
                              Entry(KEY_installation_options, installation),
                              Entry(KEY_water_resistance, water_resistance),
                              Entry(KEY_dcof, dcof)>>)
        s6 == supporting_of(<<Entry(KEY_placement_location, placement),
                              Entry(KEY_installation_options, installation),
                              Entry(KEY_water_resistance, water_resistance),
                              Entry(KEY_dcof, dcof),
                              Entry(KEY_floor_suitability_rating, floor_rating),
                              Entry(KEY_pei_rating, pei)>>)
    IN  IF placement # <<>> /\ in_text(KW_wall_only, lower(placement))
        THEN mk_response("garage_workshop_floor", "False", 95, s1)
        ELSE IF installation # <<>> /\ in_text(KW_wall_only, lower(installation))
        THEN mk_response("garage_workshop_floor", "False", 95, s2)
        ELSE IF /\ water_resistance # <<>>
                /\ contains_any(water_resistance, NOT_WATER_OR_RECOMMENDED)
        THEN mk_response("garage_workshop_floor", "False", 90, s3)
        ELSE IF dcof # <<>> /\ value.some /\ below(value, 42, 100)
        THEN mk_response("garage_workshop_floor", "False", 85, s4)
        ELSE IF /\ pei # <<>> /\ pei_val.some
                /\ ~at_least(pei_val, 4, 1) /\ at_most(pei_val, 2, 1)
        THEN mk_response("garage_workshop_floor", "False", 90, s6)
        ELSE IF /\ pei_ready \/ heavy_rating
                /\ water_resistance # <<>>
                /\ \/ dcof = <<>>
                   \/ ~value.some
                   \/ at_least(value, 42, 100)
        THEN mk_response("garage_workshop_floor", "True", 80, s6)
        ELSE mk_response("garage_workshop_floor", "None", 35, s6))

\* Lines 974-1052
check_driveway_paver(detail) ==
    With(build_spec_map(detail), LAMBDA spec_map_ :
    LET placement == get(spec_map_, KEY_placement_location)
        thickness == get(spec_map_, KEY_product_thickness)
        frost == get(spec_map_, KEY_frost_resistance)
        water_absorption == get(spec_map_, KEY_water_absorption)
        outdoor_ready ==
            /\ placement # <<>>
            /\ \/ in_text(KW_outdoor, lower(placement))
               \/ in_text(KW_exterior, lower(placement))
        thickness_val == IF thickness # <<>> THEN extract_float(thickness)
                         ELSE NoNumber
        frost_ok == frost # <<>> /\ contains_any(frost, FROST_POSITIVE)
        abs_val == extract_float(water_absorption)
        dense ==
            water_absorption # <<>> /\ abs_val.some /\ at_most(abs_val, 5, 10)
        s1 == supporting_of(<<Entry(KEY_placement_location, placement)>>)
        s2 == supporting_of(<<Entry(KEY_placement_location, placement),
                              Entry(KEY_product_thickness, thickness)>>)
        s3 == supporting_of(<<Entry(KEY_placement_location, placement),
                              Entry(KEY_product_thickness, thickness),
                              Entry(KEY_frost_resistance, frost)>>)
        s4 == supporting_of(<<Entry(KEY_placement_location, placement),
                              Entry(KEY_product_thickness, thickness),
                              Entry(KEY_frost_resistance, frost),
                              Entry(KEY_water_absorption, water_absorption)>>)
    IN  IF placement # <<>> /\ in_text(KW_indoor_only, lower(placement))
        THEN mk_response("driveway_paver", "False", 90, s1)
        ELSE IF thickness_val.some /\ below(thickness_val, 1, 1)
        THEN mk_response("driveway_paver", "False", 90, s2)
        ELSE IF frost # <<>> /\ contains_any(frost, FROST_NEGATIVE)
        THEN mk_response("driveway_paver", "False", 90, s3)
        ELSE IF /\ outdoor_ready
                /\ thickness_val.some /\ at_least(thickness_val, 125, 100)
                /\ frost_ok \/ dense
        THEN mk_response("driveway_paver", "True", 85, s4)
        ELSE mk_response("driveway_paver", "None", 35, s4))

\* Lines 1055-1126
check_stair_tread(detail) ==
    With(build_spec_map(detail), LAMBDA spec_map_ :
    LET installation == get(spec_map_, KEY_installation_options)
        placement == get(spec_map_, KEY_placement_location)
        thickness == get(spec_map_, KEY_product_thickness)
        floor_rating == get(spec_map_, KEY_floor_suitability_rating)
        floor_allowed ==
            installation # <<>> /\ in_text(KW_floor, lower(installation))
        thickness_val == IF thickness # <<>> THEN extract_float(thickness)
                         ELSE NoNumber
        s1 == supporting_of(<<Entry(KEY_installation_options, installation)>>)
        s3 == supporting_of(<<Entry(KEY_installation_options, installation),
                              Entry(KEY_placement_location, placement),
                              Entry(KEY_product_thickness, thickness)>>)
        s4 == supporting_of(<<Entry(KEY_installation_options, installation),
                              Entry(KEY_placement_location, placement),
                              Entry(KEY_product_thickness, thickness),
                              Entry(KEY_floor_suitability_rating, floor_rating)>>)
    IN  IF installation # <<>> /\ in_text(KW_wall_only, lower(installation))
        THEN mk_response("stair_tread", "False", 90, s1)
        ELSE IF thickness_val.some /\ below(thickness_val, 3, 10)
        THEN mk_response("stair_tread", "False", 85, s3)
        ELSE IF /\ floor_rating # <<>>
                /\ contains_any(floor_rating, {KW_wall_only, KW_light_wall})
        THEN mk_response("stair_tread", "False", 90, s4)
        ELSE IF /\ floor_allowed
                /\ ~thickness_val.some \/ at_least(thickness_val, 375, 1000)
        THEN mk_response("stair_tread", "True", 70, s4)
        ELSE mk_response("stair_tread", "None", 30, s4))

\* Lines 1129-1224
check_commercial_kitchen_floor(detail) ==
    With(build_spec_map(detail), LAMBDA spec_map_ :
    LET water_resistance == get(spec_map_, KEY_water_resistance)
        pei == get(spec_map_, KEY_pei_rating)
        floor_rating == get(spec_map_, KEY_floor_suitability_rating)
        dcof == or_else(get(spec_map_, KEY_dcof_value), get(spec_map_, KEY_dcof))
        material == get(spec_map_, KEY_material)
        value == extract_float(dcof)
        pei_val == extract_float(pei)
        pei_ready == pei # <<>> /\ pei_val.some /\ at_least(pei_val, 4, 1)
        commercial_flag ==
            /\ floor_rating # <<>>
            /\ contains_any(floor_rating, {KW_commercial, KW_heavy, KW_restaurant})
        s1 == supporting_of(<<Entry(KEY_material, material)>>)
        s2 == supporting_of(<<Entry(KEY_material, material),
                              Entry(KEY_water_resistance, water_resistance)>>)
        s3 == supporting_of(<<Entry(KEY_material, material),
                              Entry(KEY_water_resistance, water_resistance),
                              Entry(KEY_dcof, dcof)>>)
        s4 == supporting_of(<<Entry(KEY_material, material),
                              Entry(KEY_water_resistance, water_resistance),
                              Entry(KEY_dcof, dcof),
                              Entry(KEY_pei_rating, pei)>>)
        s5 == supporting_of(<<Entry(KEY_material, material),
                              Entry(KEY_water_resistance, water_resistance),
                              Entry(KEY_dcof, dcof),
                              Entry(KEY_pei_rating, pei),
                              Entry(KEY_floor_suitability_rating, floor_rating)>>)
    IN  IF /\ material # <<>>
           /\ contains_any(material, {KW_wood, KW_bamboo, KW_cork})
        THEN mk_response("commercial_kitchen_floor", "False", 95, s1)
        ELSE IF /\ water_resistance # <<>>
                /\ contains_any(water_resistance, NOT_WATER_OR_RECOMMENDED)
        THEN mk_response("commercial_kitchen_floor", "False", 90, s2)
        ELSE IF dcof # <<>> /\ value.some /\ below(value, 5, 10)
        THEN mk_response("commercial_kitchen_floor", "False", 90, s3)
        ELSE IF /\ pei # <<>> /\ pei_val.some
                /\ ~at_least(pei_val, 4, 1) /\ at_most(pei_val, 2, 1)
        THEN mk_response("commercial_kitchen_floor", "False", 90, s4)
        ELSE IF /\ floor_rating # <<>>
                /\ contains_any(floor_rating, {KW_residential_only, KW_wall})
        THEN mk_response("commercial_kitchen_floor", "False", 90, s5)
        ELSE IF /\ pei_ready /\ commercial_flag
                /\ \/ dcof = <<>>
                   \/ ~value.some
                   \/ at_least(value, 5, 10)
        THEN mk_response("commercial_kitchen_floor", "True", 85, s5)
        ELSE mk_response("commercial_kitchen_floor", "None", 35, s5))

\* Lines 1227-1308
check_pool_interior(detail) ==
    With(build_spec_map(detail), LAMBDA spec_map_ :
    LET water_absorption == get(spec_map_, KEY_water_absorption)
        water_resistance == get(spec_map_, KEY_water_resistance)
        placement == get(spec_map_, KEY_placement_location)
        frost == get(spec_map_, KEY_frost_resistance)
        abs_val == extract_float(water_absorption)
        dense ==
            water_absorption # <<>> /\ abs_val.some /\ at_most(abs_val, 5, 10)
        water_positive ==
            /\ water_resistance # <<>>
            /\ ~contains_any(water_resistance, NOT_WATER_OR_RECOMMENDED)
        exterior_flag ==
            /\ placement # <<>>
            /\ \/ in_text(KW_outdoor, lower(placement))
               \/ in_text(KW_exterior, lower(placement))
        frost_ok == frost # <<>> /\ contains_any(frost, FROST_POSITIVE)
        s1 == supporting_of(<<Entry(KEY_water_absorption, water_absorption)>>)
        s2 == supporting_of(<<Entry(KEY_water_absorption, water_absorption),
                              Entry(KEY_water_resistance, water_resistance)>>)
        s4 == supporting_of(<<Entry(KEY_water_absorption, water_absorption),
                              Entry(KEY_water_resistance, water_resistance),
                              Entry(KEY_placement_location, placement),
                              Entry(KEY_frost_resistance, frost)>>)
    IN  IF water_absorption # <<>> /\ abs_val.some /\ above(abs_val, 3, 1)
        THEN mk_response("pool_interior", "False", 95, s1)
        ELSE IF /\ water_resistance # <<>>
                /\ contains_any(water_resistance, NOT_WATER_OR_RECOMMENDED)
        THEN mk_response("pool_interior", "False", 90, s2)
        ELSE IF frost # <<>> /\ contains_any(frost, FROST_NEGATIVE)
        THEN mk_response("pool_interior", "False", 90, s4)
        ELSE IF dense /\ water_positive /\ (frost_ok \/ exterior_flag)
        THEN mk_response("pool_interior", "True", 80, s4)
        ELSE mk_response("pool_interior", "None", 30, s4))

\* Lines 1311-1396
check_exterior_wall_cladding(detail) ==
    With(build_spec_map(detail), LAMBDA spec_map_ :
    LET placement == get(spec_map_, KEY_placement_location)
        installation == get(spec_map_, KEY_installation_options)
        frost == get(spec_map_, KEY_frost_resistance)
        water_resistance == get(spec_map_, KEY_water_resistance)
        outdoor_flag ==
            /\ placement # <<>>
            /\ \/ in_text(KW_outdoor, lower(placement))
               \/ in_text(KW_exterior, lower(placement))
        wall_flag ==
            installation # <<>> /\ in_text(KW_wall, lower(installation))
        frost_ok == frost # <<>> /\ contains_any(frost, FROST_POSITIVE)
        s1 == supporting_of(<<Entry(KEY_placement_location, placement)>>)
        s2 == supporting_of(<<Entry(KEY_placement_location, placement),
                              Entry(KEY_installation_options, installation)>>)
        s3 == supporting_of(<<Entry(KEY_placement_location, placement),
                              Entry(KEY_installation_options, installation),
                              Entry(KEY_frost_resistance, frost)>>)
        s4 == supporting_of(<<Entry(KEY_placement_location, placement),
                              Entry(KEY_installation_options, installation),
                              Entry(KEY_frost_resistance, frost),
                              Entry(KEY_water_resistance, water_resistance)>>)
    IN  IF placement # <<>> /\ in_text(KW_indoor_only, lower(placement))
        THEN mk_response("exterior_wall_cladding", "False", 90, s1)
        ELSE IF installation # <<>> /\ in_text(KW_floor_only, lower(installation))
        THEN mk_response("exterior_wall_cladding", "False", 90, s2)
        ELSE IF frost # <<>> /\ contains_any(frost, FROST_NEGATIVE)
        THEN mk_response("exterior_wall_cladding", "False", 90, s3)
        ELSE IF /\ water_resistance # <<>>
                /\ contains_any(water_resistance, NOT_WATER_OR_RECOMMENDED)
        THEN mk_response("exterior_wall_cladding", "False", 90, s4)
        ELSE IF outdoor_flag /\ wall_flag /\ (frost_ok \/ frost = <<>>)
        THEN mk_response("exterior_wall_cladding", "True", 80, s4)
        ELSE mk_response("exterior_wall_cladding", "None", 35, s4))

\* use_case_checks.py, lines 8-28: the evaluator of each use case
checker(use_case, detail) ==
    CASE use_case = "bathroom_floor" -> check_bathroom_floor(detail)
      [] use_case = "shower_floor" -> check_shower_floor(detail)
      [] use_case = "shower_wall" -> check_shower_wall(detail)
      [] use_case = "fireplace_surround" -> check_fireplace_surround(detail)
      [] use_case = "radiant_heat" -> check_radiant_heat(detail)
      [] use_case = "outdoor_patio" -> check_outdoor_patio(detail)
      [] use_case = "pool_deck" -> check_pool_deck(detail)
      [] use_case = "kitchen_backsplash" -> check_kitchen_backsplash(detail)
      [] use_case = "commercial_heavy_floor" -> check_commercial_heavy_floor(detail)
      [] use_case = "laundry_room_floor" -> check_laundry_room_floor(detail)
      [] use_case = "basement_floor" -> check_basement_floor(detail)
      [] use_case = "steam_shower_enclosure" -> check_steam_shower_enclosure(detail)
      [] use_case = "outdoor_kitchen_counter" -> check_outdoor_kitchen_counter(detail)
      [] use_case = "garage_workshop_floor" -> check_garage_workshop_floor(detail)
      [] use_case = "driveway_paver" -> check_driveway_paver(detail)
      [] use_case = "stair_tread" -> check_stair_tread(detail)
      [] use_case = "commercial_kitchen_floor" -> check_commercial_kitchen_floor(detail)
      [] use_case = "pool_interior" -> check_pool_interior(detail)
      [] use_case = "exterior_wall_cladding" -> check_exterior_wall_cladding(detail)

-----------------------------------------------------------------------------
(* The products the evaluators are given *)

\* Attribute values as the catalog holds them
VAL_not_suitable_for_bathroom_floor ==
    Str(<<"N", "o", "t", " ", "S", "u", "i", "t", "a", "b", "l", "e", " ",
          "f", "o", "r", " ", "B", "a", "t", "h", "r", "o", "o", "m", " ",
          "F", "l", "o", "o", "r">>)
VAL_not_suitable_upper ==
    Str(<<"N", "O", "T", " ", "S", "U", "I", "T", "A", "B", "L", "E">>)
VAL_suitable == Str(<<"S", "u", "i", "t", "a", "b", "l", "e">>)
VAL_n_over_a == Str(<<"N", "/", "A">>)
VAL_water_resistant ==
    Str(<<"W", "a", "t", "e", "r", " ", "R", "e", "s", "i", "s", "t", "a",
          "n", "t">>)
VAL_not_water_resistant ==
    Str(<<"N", "o", "t", " ", "W", "a", "t", "e", "r", " ", "R", "e", "s",
          "i", "s", "t", "a", "n", "t">>)
VAL_not_recommended ==
    Str(<<"N", "o", "t", " ", "R", "e", "c", "o", "m", "m", "e", "n", "d",
          "e", "d">>)
VAL_indoor_only ==
    Str(<<"I", "n", "d", "o", "o", "r", " ", "O", "n", "l", "y">>)
VAL_indoor_outdoor ==
    Str(<<"I", "n", "d", "o", "o", "r", ",", " ", "O", "u", "t", "d", "o",
          "o", "r">>)
VAL_indoor_only_covered_outdoor ==
    Str(<<"I", "n", "d", "o", "o", "r", " ", "O", "n", "l", "y", ",", " ",
          "C", "o", "v", "e", "r", "e", "d", " ", "O", "u", "t", "d", "o",
          "o", "r">>)
VAL_wall_only == Str(<<"W", "a", "l", "l", " ", "O", "n", "l", "y">>)
VAL_exterior == Str(<<"E", "x", "t", "e", "r", "i", "o", "r">>)
VAL_floor_only == Str(<<"F", "l", "o", "o", "r", " ", "O", "n", "l", "y">>)
VAL_floor_wall ==
    Str(<<"F", "l", "o", "o", "r", ",", " ", "W", "a", "l", "l">>)
VAL_suitable_for_shower_walls ==
    Str(<<"S", "u", "i", "t", "a", "b", "l", "e", " ", "f", "o", "r", " ",
          "S", "h", "o", "w", "e", "r", " ", "W", "a", "l", "l", "s">>)
VAL_not_suitable_for_shower_walls ==
    Str(<<"N", "o", "t", " ", "S", "u", "i", "t", "a", "b", "l", "e", " ",
          "f", "o", "r", " ", "S", "h", "o", "w", "e", "r", " ", "W", "a",
          "l", "l", "s">>)
VAL_suitable_for_shower_floors ==
    Str(<<"S", "u", "i", "t", "a", "b", "l", "e", " ", "f", "o", "r", " ",
          "S", "h", "o", "w", "e", "r", " ", "F", "l", "o", "o", "r", "s">>)
VAL_not_suitable_for_shower_floors ==
    Str(<<"N", "o", "t", " ", "S", "u", "i", "t", "a", "b", "l", "e", " ",
          "f", "o", "r", " ", "S", "h", "o", "w", "e", "r", " ", "F", "l",
          "o", "o", "r", "s">>)
VAL_wet_walls == Str(<<"W", "e", "t", " ", "W", "a", "l", "l", "s">>)
VAL_0_point_3 == Str(<<"0", ".", "3">>)
VAL_0_point_42 == Str(<<"0", ".", "4", "2">>)
VAL_0_point_55 == Str(<<"0", ".", "5", "5">>)
VAL_0_point_6 == Str(<<"0", ".", "6">>)
VAL_yes == Str(<<"Y", "e", "s">>)
VAL_no == Str(<<"N", "o">>)
VAL_not_suitable ==
    Str(<<"N", "o", "t", " ", "S", "u", "i", "t", "a", "b", "l", "e">>)
VAL_not_compatible ==
    Str(<<"N", "o", "t", " ", "C", "o", "m", "p", "a", "t", "i", "b", "l",
          "e">>)
VAL_compatible == Str(<<"C", "o", "m", "p", "a", "t", "i", "b", "l", "e">>)
VAL_resistant == Str(<<"R", "e", "s", "i", "s", "t", "a", "n", "t">>)
VAL_not_resistant ==
    Str(<<"N", "o", "t", " ", "R", "e", "s", "i", "s", "t", "a", "n", "t">>)
VAL_unknown == Str(<<"U", "n", "k", "n", "o", "w", "n">>)
VAL_0_point_5 == Str(<<"0", ".", "5">>)
VAL_3_point_5 == Str(<<"3", ".", "5">>)
VAL_2 == Str(<<"2">>)
VAL_3 == Str(<<"3">>)
VAL_4 == Str(<<"4">>)
VAL_heavy_commercial ==
    Str(<<"H", "e", "a", "v", "y", " ", "C", "o", "m", "m", "e", "r", "c",
          "i", "a", "l">>)
VAL_residential_only ==
    Str(<<"R", "e", "s", "i", "d", "e", "n", "t", "i", "a", "l", " ", "O",
          "n", "l", "y">>)
VAL_light == Str(<<"L", "i", "g", "h", "t">>)
VAL_porcelain == Str(<<"P", "o", "r", "c", "e", "l", "a", "i", "n">>)
VAL_wood == Str(<<"W", "o", "o", "d">>)
VAL_1_1_over_4 == Str(<<"1", " ", "1", "/", "4">>)
VAL_3_over_8 == Str(<<"3", "/", "8">>)
VAL_1_over_4 == Str(<<"1", "/", "4">>)
VAL_3_over_4 == Str(<<"3", "/", "4">>)

\* The attribute keys as the scraper stores them
SCRAPED_bathroom_floor_use ==
    Str(<<"B", "a", "t", "h", "r", "o", "o", "m", " ", "F", "l", "o", "o",
          "r", " ", "U", "s", "e">>)
SCRAPED_water_resistance ==
    Str(<<"W", "a", "t", "e", "r", " ", "R", "e", "s", "i", "s", "t", "a",
          "n", "c", "e">>)
SCRAPED_placement_location ==
    Str(<<"P", "l", "a", "c", "e", "m", "e", "n", "t", " ", "L", "o", "c",
          "a", "t", "i", "o", "n">>)
SCRAPED_installation_options ==
    Str(<<"I", "n", "s", "t", "a", "l", "l", "a", "t", "i", "o", "n", " ",
          "O", "p", "t", "i", "o", "n", "s">>)
SCRAPED_shower_surface ==
    Str(<<"S", "h", "o", "w", "e", "r", " ", "S", "u", "r", "f", "a", "c",
          "e">>)
SCRAPED_dcof_value ==
    Str(<<"D", "C", "O", "F", " ", "V", "a", "l", "u", "e">>)
SCRAPED_dcof == Str(<<"D", "C", "O", "F">>)
SCRAPED_fireplace_surround_use ==
    Str(<<"F", "i", "r", "e", "p", "l", "a", "c", "e", " ", "S", "u", "r",
          "r", "o", "u", "n", "d", " ", "U", "s", "e">>)
SCRAPED_radiant_heat_compatible ==
    Str(<<"R", "a", "d", "i", "a", "n", "t", " ", "H", "e", "a", "t", " ",
          "C", "o", "m", "p", "a", "t", "i", "b", "l", "e">>)
SCRAPED_radiant_heat_compatibility ==
    Str(<<"R", "a", "d", "i", "a", "n", "t", " ", "H", "e", "a", "t", " ",
          "C", "o", "m", "p", "a", "t", "i", "b", "i", "l", "i", "t", "y">>)
SCRAPED_frost_resistance ==
    Str(<<"F", "r", "o", "s", "t", " ", "R", "e", "s", "i", "s", "t", "a",
          "n", "c", "e">>)
SCRAPED_water_absorption ==
    Str(<<"W", "a", "t", "e", "r", " ", "A", "b", "s", "o", "r", "p", "t",
          "i", "o", "n">>)
SCRAPED_pei_rating ==
    Str(<<"P", "E", "I", " ", "R", "a", "t", "i", "n", "g">>)
SCRAPED_floor_suitability_rating ==
    Str(<<"F", "l", "o", "o", "r", " ", "S", "u", "i", "t", "a", "b", "i",
          "l", "i", "t", "y", " ", "R", "a", "t", "i", "n", "g">>)
SCRAPED_material == Str(<<"M", "a", "t", "e", "r", "i", "a", "l">>)
SCRAPED_product_thickness ==
    Str(<<"P", "r", "o", "d", "u", "c", "t", " ", "T", "h", "i", "c", "k",
          "n", "e", "s", "s">>)

\* Each attribute with the values the products of the check take for it
ATTR_bathroom_floor_use ==
    [spec_key |-> SCRAPED_bathroom_floor_use,
     values |-> {VAL_not_suitable_for_bathroom_floor, VAL_not_suitable_upper,
                 VAL_suitable, VAL_n_over_a}]
ATTR_water_resistance ==
    [spec_key |-> SCRAPED_water_resistance,
     values |-> {VAL_water_resistant, VAL_not_water_resistant,
                 VAL_not_recommended}]
ATTR_placement_location ==
    [spec_key |-> SCRAPED_placement_location,
     values |-> {VAL_indoor_only, VAL_indoor_outdoor,
                 VAL_indoor_only_covered_outdoor, VAL_wall_only,
                 VAL_exterior}]
ATTR_installation_options ==
    [spec_key |-> SCRAPED_installation_options,
     values |-> {VAL_wall_only, VAL_floor_only, VAL_floor_wall,
                 VAL_indoor_only}]
ATTR_shower_surface ==
    [spec_key |-> SCRAPED_shower_surface,
     values |-> {VAL_suitable_for_shower_walls,
                 VAL_not_suitable_for_shower_walls,
                 VAL_suitable_for_shower_floors,
                 VAL_not_suitable_for_shower_floors, VAL_wet_walls}]
ATTR_dcof_value ==
    [spec_key |-> SCRAPED_dcof_value,
     values |-> {VAL_0_point_3, VAL_0_point_42, VAL_0_point_55, VAL_n_over_a}]
ATTR_dcof ==
    [spec_key |-> SCRAPED_dcof,
     values |-> {VAL_0_point_6}]
ATTR_fireplace_surround_use ==
    [spec_key |-> SCRAPED_fireplace_surround_use,
     values |-> {VAL_yes, VAL_no, VAL_not_suitable}]
ATTR_radiant_heat_compatible ==
    [spec_key |-> SCRAPED_radiant_heat_compatible,
     values |-> {VAL_yes, VAL_no, VAL_not_compatible}]
ATTR_radiant_heat_compatibility ==
    [spec_key |-> SCRAPED_radiant_heat_compatibility,
     values |-> {VAL_compatible}]
ATTR_frost_resistance ==
    [spec_key |-> SCRAPED_frost_resistance,
     values |-> {VAL_resistant, VAL_not_resistant, VAL_unknown}]
ATTR_water_absorption ==
    [spec_key |-> SCRAPED_water_absorption,
     values |-> {VAL_0_point_5, VAL_3_point_5, VAL_2}]
ATTR_pei_rating ==
    [spec_key |-> SCRAPED_pei_rating,
     values |-> {VAL_2, VAL_3, VAL_4}]
ATTR_floor_suitability_rating ==
    [spec_key |-> SCRAPED_floor_suitability_rating,
     values |-> {VAL_heavy_commercial, VAL_residential_only,
                 VAL_wall_only, VAL_light}]
ATTR_material ==
    [spec_key |-> SCRAPED_material,
     values |-> {VAL_porcelain, VAL_wood}]
ATTR_product_thickness ==
    [spec_key |-> SCRAPED_product_thickness,
     values |-> {VAL_1_1_over_4, VAL_3_over_8, VAL_1_over_4, VAL_3_over_4}]

\* The attributes each evaluator reads, in the order the catalog lists them
ATTRIBUTES_READ(use_case) ==
    CASE use_case = "bathroom_floor" ->
          <<ATTR_bathroom_floor_use, ATTR_water_resistance,
            ATTR_placement_location>>
      [] use_case = "shower_floor" ->
          <<ATTR_shower_surface, ATTR_dcof_value, ATTR_dcof>>
      [] use_case = "shower_wall" -> <<ATTR_shower_surface>>
      [] use_case = "fireplace_surround" -> <<ATTR_fireplace_surround_use>>
      [] use_case = "radiant_heat" ->
          <<ATTR_radiant_heat_compatible,
            ATTR_radiant_heat_compatibility>>
      [] use_case = "outdoor_patio" ->
          <<ATTR_placement_location, ATTR_frost_resistance,
            ATTR_water_absorption, ATTR_water_resistance>>
      [] use_case = "pool_deck" ->
          <<ATTR_placement_location, ATTR_dcof_value, ATTR_dcof,
            ATTR_water_resistance>>
      [] use_case = "kitchen_backsplash" ->
          <<ATTR_installation_options, ATTR_placement_location,
            ATTR_water_resistance>>
      [] use_case = "commercial_heavy_floor" ->
          <<ATTR_pei_rating, ATTR_floor_suitability_rating>>
      [] use_case = "laundry_room_floor" ->
          <<ATTR_water_resistance, ATTR_bathroom_floor_use,
            ATTR_placement_location>>
      [] use_case = "basement_floor" ->
          <<ATTR_placement_location, ATTR_water_resistance,
            ATTR_water_absorption>>
      [] use_case = "steam_shower_enclosure" ->
          <<ATTR_shower_surface, ATTR_water_absorption,
            ATTR_water_resistance, ATTR_placement_location>>
      [] use_case = "outdoor_kitchen_counter" ->
          <<ATTR_placement_location, ATTR_fireplace_surround_use,
            ATTR_water_resistance, ATTR_material>>
      [] use_case = "garage_workshop_floor" ->
          <<ATTR_placement_location, ATTR_installation_options,
            ATTR_water_resistance, ATTR_pei_rating,
            ATTR_floor_suitability_rating, ATTR_dcof_value,
            ATTR_dcof>>
      [] use_case = "driveway_paver" ->
          <<ATTR_placement_location, ATTR_product_thickness,
            ATTR_frost_resistance, ATTR_water_absorption>>
      [] use_case = "stair_tread" ->
          <<ATTR_installation_options, ATTR_placement_location,
            ATTR_product_thickness, ATTR_floor_suitability_rating>>
      [] use_case = "commercial_kitchen_floor" ->
          <<ATTR_water_resistance, ATTR_pei_rating,
            ATTR_floor_suitability_rating, ATTR_dcof_value,
            ATTR_dcof, ATTR_material>>
      [] use_case = "pool_interior" ->
          <<ATTR_water_absorption, ATTR_water_resistance,
            ATTR_placement_location, ATTR_frost_resistance>>
      [] use_case = "exterior_wall_cladding" ->
          <<ATTR_placement_location, ATTR_installation_options,
            ATTR_frost_resistance, ATTR_water_resistance>>

\* The products that hold, for each attribute of the list, one record with a
\* value of that attribute or no record
RECURSIVE ProductsOver(_)
ProductsOver(attributes) ==
    IF attributes = <<>> THEN {<<>>}
    ELSE {IF v = <<>> THEN rest
          ELSE <<ProductSpec(Head(attributes).spec_key, v)>> \o rest :
              v \in Head(attributes).values \cup {<<>>},
              rest \in ProductsOver(Tail(attributes))}

\* One evaluation: use_case_checks.USE_CASE_CHECKERS[use_case](detail)
CheckUsage ==
    /\ rule_pc = "idle"
    /\ verdict' = checker(rule_use_case, rule_detail)
    /\ rule_pc' = "done"
    /\ UNCHANGED <<rule_detail, rule_use_case>>
    /\ UNCHANGED beside_rules

InitRules ==
    /\ ChatIdle
    /\ NormIdle
    /\ NumIdle
    /\ ApiIdle
    /\ IndexIdle
    /\ SearchIdle
    /\ rule_use_case \in USE_CASES
    /\ rule_detail \in ProductsOver(ATTRIBUTES_READ(rule_use_case))
    /\ verdict = NoVerdict
    /\ rule_pc = "idle"

NextRules == CheckUsage

SpecRules == InitRules /\ [][NextRules]_vars

-----------------------------------------------------------------------------
(* main.py and api_products.py: the routes under /products/{sku} *)

\* The routes in the order the application registers them: the router of
\* api_products is included at main.py line 48, before main.py declares its
\* own usage route at line 81
ROUTES ==
    <<[method |-> "GET", path |-> "/products/{sku}",
       endpoint |-> "api_products.get_product"],
      [method |-> "POST", path |-> "/products/{sku}/usage",
       endpoint |-> "api_products.check_usage"],
      [method |-> "POST", path |-> "/products/{sku}/usage",
       endpoint |-> "main.check_product_usage"]>>

\* The endpoint that serves a request: the first registered route that
\* matches its method and path
route_of(method, path) ==
    LET matching == {i \in 1..Len(ROUTES) :
                        ROUTES[i].method = method /\ ROUTES[i].path = path}
    IN  IF matching = {} THEN "none"
        ELSE ROUTES[CHOOSE i \in matching : \A j \in matching : i <= j].endpoint

\* A response: the body of a 200, or the HTTPException raised
HttpOk(body) == [status |-> 200, detail |-> "", body |-> body]
HttpError(status, detail) == [status |-> status, detail |-> detail, body |-> <<>>]
NoAnswer == [status |-> 0, detail |-> "", body |-> <<>>]

\* product_loader.fetch_product_detail: the stored product, or ValueError
fetch_product_detail(sku, stored_specs) ==
    IF sku \in Catalog THEN [found |-> TRUE, sku |-> sku, specs |-> stored_specs]
    ELSE [found |-> FALSE, sku |-> sku, specs |-> <<>>]

\* api_products.get_product (lines 20-36)
get_product(sku, stored_specs) ==
    LET detail == fetch_product_detail(sku, stored_specs)
    IN  IF ~detail.found THEN HttpError(404, "SKU not found")
        ELSE HttpOk([sku |-> detail.sku, specs |-> detail.specs])

\* api_products.check_usage (lines 51-85)
check_usage(sku, use_case, stored_specs) ==
    LET detail == fetch_product_detail(sku, stored_specs)
    IN  IF ~detail.found THEN HttpError(404, "SKU not found")
        ELSE IF use_case = "bathroom_floor"
        THEN HttpOk(check_bathroom_floor(detail.specs))
        ELSE IF use_case = "shower_floor"
        THEN HttpOk(check_shower_floor(detail.specs))
        ELSE IF use_case = "shower_wall"
        THEN HttpOk(check_shower_wall(detail.specs))
        ELSE IF use_case = "fireplace_surround"
        THEN HttpOk(check_fireplace_surround(detail.specs))
        ELSE IF use_case = "radiant_heat"
        THEN HttpOk(check_radiant_heat(detail.specs))
        ELSE HttpError(400, "Unsupported use_case")

\* main.check_product_usage (lines 81-103)
check_product_usage(sku, use_case, stored_specs) ==
    LET detail == load_product_with_details(sku)
    IN  IF ~detail.found THEN HttpError(404, "Product not found")
        ELSE IF use_case \notin USE_CASE_CHECKERS
        THEN HttpError(400, "Unsupported use case")
        ELSE HttpOk(checker(use_case, stored_specs))

\* The application answers a request with the endpoint of the first matching
\* route; a path no route serves with this method is refused
serve(request, stored_specs) ==
    LET endpoint == route_of(request.method, request.path)
    IN  IF endpoint = "api_products.get_product"
        THEN get_product(request.sku, stored_specs)
        ELSE IF endpoint = "api_products.check_usage"
        THEN check_usage(request.sku, request.use_case, stored_specs)
        ELSE IF endpoint = "main.check_product_usage"
        THEN check_product_usage(request.sku, request.use_case, stored_specs)
        ELSE HttpError(405, "Method Not Allowed")

ServeRequest ==
    /\ api_pc = "received"
    /\ api_response' = serve(api_request, api_specs)
    /\ api_pc' = "answered"
    /\ UNCHANGED <<api_request, api_specs>>
    /\ UNCHANGED beside_api

\* The requests of the check, and the specs the store holds for the product
ApiRequests ==
    [method : {"GET", "POST"},
     path : {"/products/{sku}", "/products/{sku}/usage"},
     sku : SKUS,
     use_case : USE_CASES]
StoredSpecs == ProductsOver(<<ATTR_placement_location, ATTR_dcof_value>>)

InitApi ==
    /\ ChatIdle
    /\ NormIdle
    /\ NumIdle
    /\ RulesIdle
    /\ IndexIdle
    /\ SearchIdle
    /\ api_request \in ApiRequests
    /\ api_specs \in IF api_request.sku \in Catalog THEN StoredSpecs ELSE {<<>>}
    /\ api_response = NoAnswer
    /\ api_pc = "received"

NextApi == ServeRequest

SpecApi == InitApi /\ [][NextApi]_vars

-----------------------------------------------------------------------------
(* embedding_store.py: get_embedding_index *)

MaxThreads == 3
THREADS == 1..MaxThreads

\* `if _cached_index is None`: the thread reads the global
TestCached(t) ==
    /\ idx_threads[t].pc = "test"
    /\ idx_threads' =
          [idx_threads EXCEPT ![t].pc =
              IF cached_index = None THEN "construct" ELSE "return"]
    /\ UNCHANGED <<cached_index, constructed, files_present>>
    /\ UNCHANGED beside_index

\* ProductEmbeddingIndex(): the files are read and a new instance is made,
\* or FileNotFoundError leaves the function
Construct(t) ==
    /\ idx_threads[t].pc = "construct"
    /\ IF files_present
       THEN /\ constructed' = constructed + 1
            /\ idx_threads' = [idx_threads EXCEPT ![t].pc = "store",
                                                  ![t].built = constructed + 1]
       ELSE /\ constructed' = constructed
            /\ idx_threads' = [idx_threads EXCEPT ![t].pc = "raised"]
    /\ UNCHANGED <<cached_index, files_present>>
    /\ UNCHANGED beside_index

\* `_cached_index = ...`: the instance is stored in the global
StoreCached(t) ==
    /\ idx_threads[t].pc = "store"
    /\ cached_index' = idx_threads[t].built
    /\ idx_threads' = [idx_threads EXCEPT ![t].pc = "return"]
    /\ UNCHANGED <<constructed, files_present>>
    /\ UNCHANGED beside_index

\* `return _cached_index`: the global is read again
ReturnCached(t) ==
    /\ idx_threads[t].pc = "return"
    /\ idx_threads' = [idx_threads EXCEPT ![t].pc = "done",
                                          ![t].result = cached_index]
    /\ UNCHANGED <<cached_index, constructed, files_present>>
    /\ UNCHANGED beside_index

InitIndex ==
    /\ ChatIdle
    /\ NormIdle
    /\ NumIdle
    /\ RulesIdle
    /\ ApiIdle
    /\ SearchIdle
    /\ cached_index = None
    /\ constructed = 0
    /\ files_present \in BOOLEAN
    /\ idx_threads = [t \in THREADS |-> [pc |-> "test", built |-> None,
                                          result |-> None]]

NextIndex ==
    \E t \in THREADS :
        \/ TestCached(t)
        \/ Construct(t)
        \/ StoreCached(t)
        \/ ReturnCached(t)

SpecIndex == InitIndex /\ [][NextIndex]_vars

-----------------------------------------------------------------------------
(* The claims *)

\* The elements of s at their first occurrence, in order
RECURSIVE FirstOccurrences(_)
FirstOccurrences(s) ==
    IF s = <<>> THEN <<>>
    ELSE LET init == SubSeq(s, 1, Len(s) - 1) IN
         IF Contains(init, s[Len(s)]) THEN FirstOccurrences(init)
         ELSE Append(FirstOccurrences(init), s[Len(s)])

\* r is raw without the whitespace at its two ends
Trimmed(r, raw) ==
    \E i \in 1..(Len(raw) + 1), j \in 0..Len(raw) :
        /\ r = SubSeq(raw, i, j)
        /\ \A n \in 1..(i - 1) : IsSpace(raw[n])
        /\ \A n \in (j + 1)..Len(raw) : IsSpace(raw[n])
        /\ r # <<>> => ~IsSpace(r[1]) /\ ~IsSpace(r[Len(r)])

\* C1: a request calls the LLM at most MAX_TOOL_CALLS = 3 times, and when
\* every one of those replies was a tool call that executed, the request has
\* ended with the "too many tool calls" failure (status 500, neither a
\* validation nor a not-found failure) and no response.
C1_LlmCallsBounded ==
    /\ llm_calls <= MAX_TOOL_CALLS
    /\ tools_ok <= llm_calls
    /\ tools_ok = MAX_TOOL_CALLS =>
          /\ pc = "done"
          /\ outcome.kind = "tool_budget"
          /\ outcome.status = 500
          /\ outcome.kind \notin {"validation", "not_found"}
          /\ response = NoResponse

C1_Witness ==
    /\ tools_ok = MAX_TOOL_CALLS
    /\ llm_calls = MAX_TOOL_CALLS
    /\ pc = "done"
    /\ ~response.returned

\* C2 as stated: the tool-call-budget failure is raised on the 4th iteration
\* (after a 4th tool-call intent of the LLM), and there is no 5th LLM call.
C2_FailsOnFourthIteration ==
    /\ llm_calls <= MAX_TOOL_CALLS + 1
    /\ outcome.kind = "tool_budget" => llm_calls = MAX_TOOL_CALLS + 1

\* C2 amended: the budget failure is raised at the end of the 3rd iteration,
\* after 3 consecutive tool calls that executed, and the LLM is never called
\* a 4th time: after its 3rd call the request has ended.
C2_FailsOnThirdIteration ==
    /\ outcome.kind = "tool_budget" =>
          llm_calls = MAX_TOOL_CALLS /\ tools_ok = MAX_TOOL_CALLS
    /\ llm_calls >= MAX_TOOL_CALLS => llm_calls = MAX_TOOL_CALLS /\ pc = "done"

C2_Witness == outcome.kind = "tool_budget" /\ llm_calls = 3 /\ Len(conversation) >= 8

\* The text is not a JSON object as a whole and holds no brace-delimited
\* substring that parses as a JSON object
C3_BraceDelimited(s) == s # <<>> /\ Opens(s[1]) /\ Closes(s[Len(s)])
C3_Unparsable(raw) ==
    /\ raw # <<>>
    /\ ~json_loads(raw).ok
    /\ \A i \in 1..Len(raw), j \in 1..Len(raw) :
          i <= j /\ C3_BraceDelimited(SubSeq(raw, i, j))
             => ~json_loads(SubSeq(raw, i, j)).ok

\* C3 as stated: for unparsable free text the response's content is the raw
\* text verbatim, no character added or removed.
C3_RawVerbatim ==
    outcome.kind = "response" /\ C3_Unparsable(last_reply)
        => response.content = last_reply

\* C3 amended: for unparsable free text the response's content is the raw
\* text without its leading and trailing whitespace, otherwise unchanged.
C3_RawTrimmed ==
    outcome.kind = "response" /\ C3_Unparsable(last_reply)
        => response.returned /\ Trimmed(response.content, last_reply)

C3_Witness ==
    /\ outcome.kind = "response"
    /\ C3_Unparsable(last_reply)
    /\ last_reply = <<SP, XX>>
    /\ response.content = <<XX>>

\* C4: whatever non-empty text the LLM returned, the request ends with a
\* response or a reported failure (validation, not-found, tool budget), never
\* with an unhandled exception.
C4_NoUnhandledException ==
    pc = "done" /\ last_reply # <<>>
        => outcome.kind \in {"response", "validation", "not_found", "tool_budget"}

\* The text parses, as a whole or through its brace-delimited substring, to
\* an object whose action is missing or not recognized
C5_UnrecognizedAction(raw) ==
    LET whole == json_loads(raw)
        match == re_search_braces(raw)
        sub == json_loads(match.group)
    IN  \/ whole.ok /\ whole.data.action \notin RECOGNIZED
        \/ ~whole.ok /\ match.found /\ sub.ok /\ sub.data.action \notin RECOGNIZED

\* C5: when the text parses to an object without a recognized action, the
\* answer returned is the entire raw text (here: up to the whitespace at its
\* ends), not the object's own content, and no tool was executed.
C5_FallbackIsRawText ==
    outcome.kind = "response" /\ C5_UnrecognizedAction(last_reply)
        => Trimmed(response.content, last_reply) /\ conversation = sent

\* The intent of the text is a tool call that names an unrecognized tool,
\* omits a required argument, gives an unknown use case or an id the store
\* does not hold
C6_BadToolCall(raw) ==
    LET parsed == parse_action(raw)
        a == parsed.action
        args == Get(a.arguments, EmptyMap)
        detail == a.tool_name = JStr("get_product_detail")
        usage == a.tool_name = JStr("check_usage")
    IN  /\ parsed.exc = "none"
        /\ a.action = JStr("call_tool")
        /\ \/ a.tool_name \notin {JStr("search_products"),
                                   JStr("get_product_detail"), JStr("check_usage")}
           \/ /\ args.k = "map"
              /\ \/ detail /\ ~Truthy(args.sku)
                 \/ usage /\ (~Truthy(args.sku) \/ ~Truthy(args.use_case))
                 \/ /\ usage
                    /\ Truthy(args.sku) /\ Truthy(args.use_case)
                    /\ args.use_case.s \notin USE_CASES
                 \/ /\ detail \/ (usage /\ Truthy(args.use_case))
                    /\ Truthy(args.sku)
                    /\ args.sku.s \notin Catalog

\* C6: such a tool call ends the request at once with a failure reported to
\* the caller (400 or 404): no response, the conversation not extended, and
\* from then on no further LLM call.
C6_BadToolCallIsTerminal ==
    /\ [](C6_BadToolCall(last_reply) =>
            /\ pc = "done"
            /\ outcome.exc = "HTTPException"
            /\ outcome.kind \in {"validation", "not_found"}
            /\ response = NoResponse
            /\ conversation = sent)
    /\ [][C6_BadToolCall(last_reply) =>
            UNCHANGED <<llm_calls, conversation, response, outcome>>]_vars

C6_Witness ==
    /\ C6_BadToolCall(last_reply)
    /\ outcome.kind = "not_found"
    /\ tools_ok = 1
    /\ llm_calls = 2

\* C7: the referenced products of a response hold no identifier twice, and
\* are the first occurrences, in order, of the context builder's details
\* followed by the details the successful tool calls touched.
C7_ReferencedProducts ==
    response.returned =>
        /\ NoRepeat(response.referenced_products)
        /\ response.referenced_products =
              FirstOccurrences(retrieved_details \o touched)

C7_Witness ==
    /\ response.returned
    /\ Len(response.referenced_products) >= 2
    /\ Len(touched) = 2
    /\ \E i \in 1..Len(touched) : Contains(retrieved_details, touched[i])
    /\ \E i \in 1..Len(touched) : ~Contains(retrieved_details, touched[i])

\* The hits of the query, lexical before semantic, each at most topK
C8_Hits ==
    IF Strip(payload.messages[1].content) # <<>>
    THEN Take(env.lexical, TOP_K) \o Take(env.semantic, TOP_K)
    ELSE <<>>
C8_Candidates ==
    (IF payload.active_sku.k = "str" /\ payload.active_sku.s # ""
     THEN <<payload.active_sku.s>> ELSE <<>>) \o C8_Hits

\* C8: the candidates are activeId, then the lexical, then the semantic hits;
\* duplicates go, the first occurrence stays; only the first topK are
\* resolved, so the details number at most topK; activeId A with hits
\* [B, A, C] resolves in the order [A, B, C].
C8_ContextOrder ==
    pc = "loop" =>
        /\ ordered_skus = FirstOccurrences(C8_Candidates)
        /\ \A i \in 1..Len(retrieved_details) :
              Contains(Take(ordered_skus, TOP_K), retrieved_details[i])
        /\ Len(retrieved_details) <= TOP_K
        /\ payload.active_sku = JStr("A") /\ C8_Hits = <<"B", "A", "C">>
              => ordered_skus = <<"A", "B", "C">>
                 /\ retrieved_details = <<"A", "B", "C">>

C8_Witness ==
    /\ pc = "loop"
    /\ payload.active_sku = JStr("A")
    /\ env.lexical = <<"B">>
    /\ env.semantic = <<"A", "C">>
    /\ retrieved_details = <<"A", "B", "C">>

\* C9: an identifier the store cannot resolve is dropped and the request goes
\* on; the identifiers that resolve keep their order; the briefing is empty
\* exactly when none resolves.
C9_UnresolvedDropped ==
    pc # "idle" =>
        /\ pc = "loop"
        /\ outcome = Pending
        /\ retrieved_details =
              SelectSeq(Take(ordered_skus, TOP_K), LAMBDA x : x \in Catalog)
        /\ context_text = <<>>
              <=> \A i \in 1..Len(Take(ordered_skus, TOP_K)) :
                      ordered_skus[i] \notin Catalog

C9_Witness ==
    /\ pc = "loop"
    /\ ordered_skus = <<"A", "D", "B", "C">>
    /\ retrieved_details = <<"A", "B">>
    /\ context_text # <<>>

C10_Lowercase(key) == \A i \in 1..Len(key) : key[i] # UA
C10_TrimmedKey(key) ==
    key # <<>> /\ ~IsSpace(key[1]) /\ ~IsSpace(key[Len(key)])
C10_Collapsed(key) ==
    /\ C10_TrimmedKey(key)
    /\ \A i \in 1..Len(key) : key[i] \notin {TAB, Ch("\n")}
    /\ \A i \in 1..(Len(key) - 1) : ~(IsSpace(key[i]) /\ IsSpace(key[i + 1]))
C10_BlankKey(key) == \A i \in 1..Len(key) : IsSpace(key[i])

\* C10 as stated: every key of the map is lowercase and whitespace-collapsed
\* (trimmed, no run of two or more whitespace characters, no tab or newline).
C10_KeysCollapsed ==
    norm_pc = "done" =>
        \A i \in 1..Len(spec_map) :
            C10_Lowercase(spec_map[i].key) /\ C10_Collapsed(spec_map[i].key)

\* C10 amended: every key of the map is lowercase and trimmed (not empty, no
\* whitespace at its ends; whitespace inside the key stays as written), and
\* no record whose trimmed key is empty contributes an entry: the entries
\* are as many as the distinct keys of the records whose key is not blank.
C10_KeysLowerTrimmed ==
    norm_pc = "done" =>
        /\ \A i \in 1..Len(spec_map) :
              /\ C10_Lowercase(spec_map[i].key)
              /\ C10_TrimmedKey(spec_map[i].key)
              /\ \E n \in 1..Len(specs) :
                    /\ ~C10_BlankKey(specs[n].spec_key)
                    /\ Trimmed(spec_map[i].key,
                               [c \in 1..Len(specs[n].spec_key) |->
                                   IF specs[n].spec_key[c] = UA THEN LA
                                   ELSE specs[n].spec_key[c]])
        /\ Len(spec_map) <=
              Cardinality({n \in 1..Len(specs) : ~C10_BlankKey(specs[n].spec_key)})

C10_Witness ==
    /\ norm_pc = "done"
    /\ Len(specs) = 2
    /\ C10_BlankKey(specs[1].spec_key)
    /\ specs[2].spec_key = <<UA, SP, LB>>
    /\ Len(spec_map) = 1
    /\ spec_map[1].key = <<LA, SP, LB>>

C11_Group(key) ==
    {n \in 1..Len(specs) : lower(Strip(specs[n].spec_key)) = key}
C11_Value(n) == normalize_value(specs[n].spec_value)
C11_IsCollapsed(val) ==
    /\ val # <<>> => ~IsSpace(val[1]) /\ ~IsSpace(val[Len(val)])
    /\ \A i \in 1..Len(val) : IsSpace(val[i]) => val[i] = SP
    /\ \A i \in 1..(Len(val) - 1) : ~(IsSpace(val[i]) /\ IsSpace(val[i + 1]))

\* C11: the value the map holds for a key is whitespace-collapsed and is the
\* collapsed value of the first record, in record order, among the records
\* of that key whose collapsed value has the least length.
C11_ShortestFirstWins ==
    norm_pc = "done" =>
        \A i \in 1..Len(spec_map) :
            /\ C11_IsCollapsed(spec_map[i].val)
            /\ \E n \in C11_Group(spec_map[i].key) :
                  /\ spec_map[i].val = C11_Value(n)
                  /\ \A m \in C11_Group(spec_map[i].key) :
                        /\ Len(C11_Value(n)) <= Len(C11_Value(m))
                        /\ Len(C11_Value(m)) = Len(C11_Value(n)) => n <= m

C11_Witness ==
    /\ norm_pc = "done"
    /\ Len(specs) = 2
    /\ specs[1] = ProductSpec(<<UA>>, <<SP, XX>>)
    /\ specs[2] = ProductSpec(<<LA>>, <<LB>>)
    /\ spec_map = <<Entry(<<LA>>, <<XX>>)>>

\* The pieces of a number pattern, read off the text: the end of the run of
\* digits that starts at a, the first position from a that holds no
\* whitespace, and the value of the digits t[a..b]
C12_RunEnd(t, a) ==
    CHOOSE b \in a..Len(t) :
        (\A k \in a..b : IsDigit(t[k])) /\ ~IsDigit(At(t, b + 1))
C12_GapEnd(t, a) ==
    CHOOSE c \in a..(Len(t) + 1) :
        (\A k \in a..(c - 1) : IsSpace(t[k])) /\ ~IsSpace(At(t, c))
RECURSIVE C12_Num(_, _, _)
C12_Num(t, a, b) ==
    IF a > b THEN 0
    ELSE DigitValue[t[a].c] * Pow10(b - a) + C12_Num(t, a + 1, b)
C12_DigitsFrom(t, i) == IF At(t, i) = MINUS THEN i + 1 ELSE i
C12_Sign(t, i) == IF At(t, i) = MINUS THEN 0 - 1 ELSE 1

\* "W N/D" begins at i: W, whitespace, N, "/", D
C12_IsMixedAt(t, i) ==
    LET a == C12_DigitsFrom(t, i) IN
    /\ IsDigit(At(t, a))
    /\ IsSpace(At(t, C12_RunEnd(t, a) + 1))
    /\ LET c == C12_GapEnd(t, C12_RunEnd(t, a) + 1) IN
       /\ IsDigit(At(t, c))
       /\ LET e == C12_GapEnd(t, C12_RunEnd(t, c) + 1) IN
          /\ At(t, e) = SLASH
          /\ IsDigit(At(t, C12_GapEnd(t, e + 1)))
C12_MixedW(t, i) ==
    LET a == C12_DigitsFrom(t, i) IN C12_Sign(t, i) * C12_Num(t, a, C12_RunEnd(t, a))
C12_MixedN(t, i) ==
    LET c == C12_GapEnd(t, C12_RunEnd(t, C12_DigitsFrom(t, i)) + 1)
    IN  C12_Num(t, c, C12_RunEnd(t, c))
C12_MixedD(t, i) ==
    LET c == C12_GapEnd(t, C12_RunEnd(t, C12_DigitsFrom(t, i)) + 1)
        f == C12_GapEnd(t, C12_GapEnd(t, C12_RunEnd(t, c) + 1) + 1)
    IN  C12_Num(t, f, C12_RunEnd(t, f))

\* "N/D" begins at i
C12_IsFracAt(t, i) ==
    LET a == C12_DigitsFrom(t, i) IN
    /\ IsDigit(At(t, a))
    /\ LET e == C12_GapEnd(t, C12_RunEnd(t, a) + 1) IN
       /\ At(t, e) = SLASH
       /\ IsDigit(At(t, C12_GapEnd(t, e + 1)))
C12_FracN(t, i) ==
    LET a == C12_DigitsFrom(t, i) IN C12_Sign(t, i) * C12_Num(t, a, C12_RunEnd(t, a))
C12_FracD(t, i) ==
    LET f == C12_GapEnd(t, C12_GapEnd(t, C12_RunEnd(t, C12_DigitsFrom(t, i)) + 1) + 1)
    IN  C12_Num(t, f, C12_RunEnd(t, f))

\* A plain decimal or integer begins at i; its value is PlainNum / PlainDen
C12_IsPlainAt(t, i) == IsDigit(At(t, C12_DigitsFrom(t, i)))
C12_HasDecimals(t, i) ==
    LET b == C12_RunEnd(t, C12_DigitsFrom(t, i))
    IN  At(t, b + 1) = DOT /\ IsDigit(At(t, b + 2))
C12_PlainDen(t, i) ==
    LET b == C12_RunEnd(t, C12_DigitsFrom(t, i)) IN
    IF C12_HasDecimals(t, i) THEN Pow10(C12_RunEnd(t, b + 2) - (b + 1)) ELSE 1
C12_PlainNum(t, i) ==
    LET a == C12_DigitsFrom(t, i)
        b == C12_RunEnd(t, a)
    IN  C12_Sign(t, i) *
          (C12_Num(t, a, b) * C12_PlainDen(t, i)
             + (IF C12_HasDecimals(t, i)
                THEN C12_Num(t, b + 2, C12_RunEnd(t, b + 2)) ELSE 0))

C12_First(S) == CHOOSE i \in S : \A j \in S : i <= j
C12_Positions(t) == 1..Len(t)
C12_Mixed(t) == {i \in C12_Positions(t) : C12_IsMixedAt(t, i)}
C12_Frac(t) == {i \in C12_Positions(t) : C12_IsFracAt(t, i)}
C12_Plain(t) == {i \in C12_Positions(t) : C12_IsPlainAt(t, i)}
C12_MixedCounts(t) ==
    C12_Mixed(t) # {} /\ C12_MixedD(t, C12_First(C12_Mixed(t))) # 0
C12_FracCounts(t) ==
    C12_Frac(t) # {} /\ C12_FracD(t, C12_First(C12_Frac(t))) # 0

\* The value the priority order gives a text
C12_Expected(t) ==
    IF C12_MixedCounts(t)
    THEN LET i == C12_First(C12_Mixed(t))
             W == C12_MixedW(t, i)
             N == C12_MixedN(t, i)
             D == C12_MixedD(t, i)
         IN  Float(W * D + (IF W < 0 THEN 0 - N ELSE N), D)
    ELSE IF C12_FracCounts(t)
    THEN LET i == C12_First(C12_Frac(t))
         IN  Float(C12_FracN(t, i), C12_FracD(t, i))
    ELSE IF C12_Plain(t) # {}
    THEN LET i == C12_First(C12_Plain(t))
         IN  Float(C12_PlainNum(t, i), C12_PlainDen(t, i))
    ELSE NoNumber

C12_NoComma(t) == \A i \in 1..Len(t) : t[i] # COMMA

\* C12: on a text without commas, _extract_float returns the value of the
\* first mixed fraction W N/D (W + N/D, the fraction taking the sign of W),
\* else of the first simple fraction N/D, else of the first plain decimal or
\* integer; a pattern whose first match has D = 0 is passed over; a text with
\* no digit gives None.  '1 1/4' is 1.25, '3/4' is 0.75, '12.5' is 12.5 and
\* 'n/a' is None.
C12_PriorityOrder ==
    num_pc = "done" /\ C12_NoComma(num_raw) =>
        /\ FloatEq(number, C12_Expected(num_raw))
        /\ (\A i \in 1..Len(num_raw) : ~IsDigit(num_raw[i])) => number = NoNumber
        /\ num_raw = Str(<<"1", " ", "1", "/", "4">>) => FloatEq(number, Float(125, 100))
        /\ num_raw = Str(<<"3", "/", "4">>) => FloatEq(number, Float(75, 100))
        /\ num_raw = Str(<<"1", "2", ".", "5">>) => FloatEq(number, Float(125, 10))
        /\ num_raw = Str(<<"n", "/", "a">>) => number = NoNumber
        /\ num_raw = Str(<<"-", "2", " ", "1", "/", "4">>)
              => FloatEq(number, Float(0 - 225, 100))
        /\ num_raw = Str(<<"1", " ", "1", "/", "0">>) => FloatEq(number, Float(1, 1))

C12_Witness ==
    /\ num_pc = "done"
    /\ num_raw = Str(<<"-", "2", " ", "1", "/", "4">>)
    /\ number = Float(0 - 9, 4)

\* A number written with thousands commas: one to three digits, then groups
\* of a comma and three digits
C13_Thousands(t) ==
    /\ Len(t) >= 5
    /\ \E k \in 1..3 :
          /\ (Len(t) - k) % 4 = 0
          /\ \A i \in 1..Len(t) :
                IF i > k /\ (i - k) % 4 = 1 THEN t[i] = COMMA ELSE IsDigit(t[i])
C13_AllDigits(t) == SelectSeq(t, IsDigit)

\* C13: a number written with thousands commas yields its full value:
\* '1,234' gives 1234.
C13_ThousandsValue ==
    num_pc = "done" /\ C13_Thousands(num_raw) =>
        FloatEq(number,
                Float(C12_Num(C13_AllDigits(num_raw), 1, Len(C13_AllDigits(num_raw))), 1))

\* C14: every verdict of an evaluator whose ok is unknown (None) has a
\* confidence from 0.0 to 0.45.
C14_UnknownIsLow ==
    rule_pc = "done" /\ verdict.ok = "None" =>
        /\ FloatLeq(Float(0, 100), verdict.confidence)
        /\ FloatLeq(verdict.confidence, Float(45, 100))

\* The confidences the specification lists for a decided verdict
C15_Listed == {Float(h, 100) : h \in {95, 90, 85, 80, 75, 70, 60}}

\* C15: every verdict of an evaluator whose ok is true or false has a
\* confidence among 0.95, 0.9, 0.85, 0.8, 0.75, 0.7 and 0.6.
C15_DecidedConfidenceListed ==
    rule_pc = "done" /\ verdict.ok \in {"True", "False"} =>
        \E listed \in C15_Listed : FloatEq(verdict.confidence, listed)

C15_Witness ==
    /\ rule_pc = "done"
    /\ rule_use_case = "stair_tread"
    /\ verdict.ok = "True"
    /\ verdict.confidence = Float(70, 100)

\* The two texts are the same when the case of letters is ignored
C16_SameIgnoringCase(a, b) ==
    /\ Len(a) = Len(b)
    /\ \A i \in 1..Len(a) :
          \/ a[i] = b[i]
          \/ a[i].c \in DOMAIN LowerOf /\ Ch(LowerOf[a[i].c]) = b[i]
          \/ b[i].c \in DOMAIN LowerOf /\ Ch(LowerOf[b[i].c]) = a[i]
C16_Mentions(val, keyword) ==
    \E i \in 0..(Len(val) - Len(keyword)) :
        C16_SameIgnoringCase(SubSeq(val, i + 1, i + Len(keyword)), keyword)
\* The product says 'not suitable' in its 'bathroom floor use' attribute
C16_SaysNotSuitable ==
    \E n \in 1..Len(rule_detail) :
        /\ C16_SameIgnoringCase(rule_detail[n].spec_key, KEY_bathroom_floor_use)
        /\ C16_Mentions(rule_detail[n].spec_value, KW_not_suitable)

\* C16: a product whose 'bathroom floor use' attribute contains 'not
\* suitable', in any letter case, gets ok = false with confidence 0.95 from
\* checkBathroomFloor, whatever its other attributes say; it is never
\* reported suitable.
C16_NotSuitableRejected ==
    rule_pc = "done" /\ rule_use_case = "bathroom_floor" /\ C16_SaysNotSuitable =>
        /\ verdict.ok = "False"
        /\ FloatEq(verdict.confidence, Float(95, 100))

C16_Witness ==
    /\ rule_pc = "done"
    /\ rule_use_case = "bathroom_floor"
    /\ Len(rule_detail) = 3
    /\ rule_detail[1].spec_value = VAL_not_suitable_upper
    /\ verdict.ok = "False"

\* The value the product's spec map holds for an attribute ("" when none)
C17_Attribute(key) == get(build_spec_map(rule_detail), key)
C17_Verdict(ok, hundredths) ==
    verdict.ok = ok /\ FloatEq(verdict.confidence, Float(hundredths, 100))
\* The three rules of checkPoolDeck, each on the attribute it reads
C17_PlacementRejects ==
    /\ C17_Attribute(KEY_placement_location) # <<>>
    /\ ~C16_Mentions(C17_Attribute(KEY_placement_location), KW_outdoor)
C17_WaterRejects ==
    \/ C16_Mentions(C17_Attribute(KEY_water_resistance), KW_not_water)
    \/ C16_Mentions(C17_Attribute(KEY_water_resistance), KW_not_resistant)
C17_Dcof ==
    extract_float(IF C17_Attribute(KEY_dcof_value) # <<>>
                  THEN C17_Attribute(KEY_dcof_value)
                  ELSE C17_Attribute(KEY_dcof))

\* C17: checkPoolDeck rejects on placement first (a placement that does not
\* contain 'outdoor': false, 0.85), then on water resistance (false, 0.95),
\* then decides on the DCOF (at least 0.42: true, 0.9; below: false, 0.85);
\* a later rule decides only when no earlier rule fired.  With DCOF 0.55, no
\* placement record and no water-resistance rejection the verdict is true.
C17_PoolDeckOrder ==
    rule_pc = "done" /\ rule_use_case = "pool_deck" =>
        /\ C17_PlacementRejects => C17_Verdict("False", 85)
        /\ ~C17_PlacementRejects /\ C17_WaterRejects => C17_Verdict("False", 95)
        /\ ~C17_PlacementRejects /\ ~C17_WaterRejects /\ C17_Dcof.some =>
              IF FloatLeq(Float(42, 100), C17_Dcof)
              THEN C17_Verdict("True", 90)
              ELSE C17_Verdict("False", 85)
        /\ (/\ C17_Attribute(KEY_dcof_value) = VAL_0_point_55
            /\ \A n \in 1..Len(rule_detail) :
                  ~C16_SameIgnoringCase(rule_detail[n].spec_key,
                                        KEY_placement_location)
            /\ ~C17_WaterRejects)
              => verdict.ok = "True"

\* Both rejections apply and the placement one decides
C17_Witness ==
    /\ rule_pc = "done"
    /\ rule_use_case = "pool_deck"
    /\ C17_PlacementRejects
    /\ C17_WaterRejects
    /\ C17_Attribute(KEY_dcof_value) = VAL_0_point_55
    /\ C17_Verdict("False", 85)

C18_OUTDOOR_USES ==
    {"outdoor_patio", "pool_deck", "outdoor_kitchen_counter", "driveway_paver",
     "exterior_wall_cladding"}
C18_FLOOR_USES == {"garage_workshop_floor", "stair_tread"}
C18_WALL_USES == {"kitchen_backsplash", "exterior_wall_cladding"}
\* The placement or the installation attribute of the product has the phrase
C18_Says(phrase) ==
    \/ C16_Mentions(C17_Attribute(KEY_placement_location), phrase)
    \/ C16_Mentions(C17_Attribute(KEY_installation_options), phrase)

\* C18: 'indoor only' in the placement or installation attribute gives
\* ok = false for every outdoor use case, 'wall only' for the garage/workshop
\* floor and the stair tread, 'floor only' for the kitchen backsplash and the
\* exterior wall cladding, whatever the other attributes and whatever else
\* the attribute value says.
C18_OppositeUseDisqualified ==
    rule_pc = "done" =>
        /\ rule_use_case \in C18_OUTDOOR_USES /\ C18_Says(KW_indoor_only)
              => verdict.ok = "False"
        /\ rule_use_case \in C18_FLOOR_USES /\ C18_Says(KW_wall_only)
              => verdict.ok = "False"
        /\ rule_use_case \in C18_WALL_USES /\ C18_Says(KW_floor_only)
              => verdict.ok = "False"

\* C19: a POST /products/{sku}/usage request for a product of the catalog
\* store and any of the 19 use cases is answered with the verdict of that use
\* case's evaluator, never with an 'unsupported use case' failure.
C19_UsageReturnsVerdict ==
    /\ api_pc = "answered"
    /\ api_request.method = "POST"
    /\ api_request.path = "/products/{sku}/usage"
    /\ api_request.sku \in Catalog
    /\ api_request.use_case \in USE_CASES
    => /\ api_response.status # 400
       /\ api_response = HttpOk(checker(api_request.use_case, api_specs))

\* C20: whatever the interleaving of the requests in get_embedding_index, the
\* index is constructed at most once, every request that obtains an index
\* obtains the same instance, and the cached instance is never replaced.
C20_IndexLoadedOnce ==
    /\ [](constructed <= 1)
    /\ [](\A t, u \in DOMAIN idx_threads :
             idx_threads[t].pc = "done" /\ idx_threads[u].pc = "done"
                => idx_threads[t].result = idx_threads[u].result)
    /\ [][cached_index # None => cached_index' = cached_index]_vars

-----------------------------------------------------------------------------
(* chat_service.py: the search_products tool and the catalog store *)

\* _execute_tool, lines 235-237: the limit handed to the store and the rows
\* the store answers with: [exc, asked, rows]
search_tool(arguments, matching) ==
    IF arguments.k # "map"
    THEN [exc |-> "AttributeError", asked |-> 0, rows |-> <<>>]
    ELSE LET limit == int(Get(arguments.limit, JInt(DEFAULT_LIMIT))) IN
         IF limit.exc # "none"
         THEN [exc |-> limit.exc, asked |-> 0, rows |-> <<>>]
         ELSE [exc |-> "none", asked |-> Min(limit.n, LIMIT_CAP),
               rows |-> search_products(matching, Min(limit.n, LIMIT_CAP))]

\* How far the limits and the store's rows go beyond the cap and below zero
MaxBeyondCap == 2
MaxBelowZero == 2

SearchLimits ==
    {Absent, JNull}
    \cup {JInt(n) : n \in (0 - MaxBelowZero)..(LIMIT_CAP + MaxBeyondCap)}

\* The rows of the store a query matches, in the store's order
MatchingRows == {[i \in 1..n |-> i] : n \in 0..(LIMIT_CAP + MaxBeyondCap)}

SearchTool ==
    /\ search_pc = "idle"
    /\ search_result' = search_tool(search_arguments, search_matching)
    /\ search_pc' = "done"
    /\ UNCHANGED <<search_arguments, search_matching>>
    /\ UNCHANGED beside_search

InitSearch ==
    /\ ChatIdle
    /\ NormIdle
    /\ NumIdle
    /\ RulesIdle
    /\ ApiIdle
    /\ IndexIdle
    /\ search_arguments \in {JMap(JText(<<Ch("a")>>), limit, Absent, Absent) :
                                limit \in SearchLimits}
    /\ search_matching \in MatchingRows
    /\ search_result = NoSearch
    /\ search_pc = "idle"

NextSearch == SearchTool

SpecSearch == InitSearch /\ [][NextSearch]_vars

\* C21: a search_products tool call asks for 5 products when the model gives
\* no limit and, for every integer limit the model gives, asks the store for
\* and receives at most 25 products.
C21_SearchCapped ==
    (search_pc = "done" /\ search_result.exc = "none")
        => /\ search_arguments.limit = Absent
                => search_result.asked = DEFAULT_LIMIT
           /\ search_result.asked <= LIMIT_CAP
           /\ Len(search_result.rows) <= LIMIT_CAP

-----------------------------------------------------------------------------
(* chat_service.py: the conversation built from the caller's history *)

MaxHistory == 3

\* The caller's messages: user and assistant turns, and a role the program
\* does not know
HistoryMessages == {Msg("user", Q), Msg("assistant", BLANK), Msg("tool", Q)}

ConvPayloads ==
    {[messages |-> m, active_sku |-> JNull] :
        m \in SeqsUpTo(HistoryMessages, MaxHistory)}

\* The store finds a product for the query, or none: the briefing is
\* non-empty or empty
ConvEnvs ==
    {[lexical |-> l, semantic |-> <<>>, index_present |-> TRUE] :
        l \in {<<>>, <<"A">>}}

InitConv ==
    /\ payload \in ConvPayloads
    /\ env \in ConvEnvs
    /\ Idle
    /\ NormIdle
    /\ NumIdle
    /\ RulesIdle
    /\ ApiIdle
    /\ IndexIdle
    /\ SearchIdle

NextConv == StartRequest \/ LLMReply \/ LLMFail

SpecConv == InitConv /\ [][NextConv]_vars

\* The caller's messages whose role is user or assistant
C22_Turns ==
    SelectSeq(payload.messages, LAMBDA m : m.role \in {"user", "assistant"})

C22_BriefingCount == IF context_text # <<>> THEN 1 ELSE 0

\* C22: the conversation first sent to the LLM is the system directive
\* (exactly once, first), the briefing as a system message if and only if it
\* is non-empty, exactly the caller's user and assistant messages in their
\* order and unchanged, and one trailing system reminder.
C22_FirstConversation ==
    llm_calls = 1 =>
        /\ Len(sent) = 1 + C22_BriefingCount + Len(C22_Turns) + 1
        /\ sent[1] = Msg("system", SYSTEM_PROMPT)
        /\ \A i \in 2..Len(sent) : sent[i] # Msg("system", SYSTEM_PROMPT)
        /\ C22_BriefingCount = 1 => sent[2] = Msg("system", context_text)
        /\ \A i \in 1..Len(C22_Turns) :
              sent[1 + C22_BriefingCount + i] = C22_Turns[i]
        /\ sent[Len(sent)] = Msg("system", REMINDER)
        /\ \A i \in 2..(Len(sent) - 1) :
              sent[i] # Msg("system", REMINDER)

\* A history with a dropped message between two kept ones, and a briefing
C22_Witness ==
    /\ llm_calls = 1
    /\ context_text # <<>>
    /\ payload.messages = <<Msg("assistant", BLANK), Msg("tool", Q), Msg("user", Q)>>
    /\ Len(sent) = 5

-----------------------------------------------------------------------------
\* C23: for every evaluator and every product, each entry of the verdict's
\* evidence map is an entry of the product's canonical spec map: its key is
\* a key of the map and its value is the value the map keeps for that key.
C23_EvidenceFromSpecMap ==
    rule_pc = "done" =>
        \A i \in 1..Len(verdict.supporting_specs) :
            /\ HasKey(build_spec_map(rule_detail), verdict.supporting_specs[i].key)
            /\ Lookup(build_spec_map(rule_detail), verdict.supporting_specs[i].key)
                  = verdict.supporting_specs[i].val

C24_DCOF_USES ==
    {"shower_floor", "pool_deck", "garage_workshop_floor",
     "commercial_kitchen_floor"}
C24_Threshold ==
    IF rule_use_case = "commercial_kitchen_floor"
    THEN Float(50, 100) ELSE Float(42, 100)
\* The product without its DCOF records
C24_WithoutDcof ==
    SelectSeq(rule_detail,
              LAMBDA r : normalize_key(r.spec_key) \notin {KEY_dcof_value, KEY_dcof})

\* C24: in each evaluator that looks up the DCOF (shower floor, pool deck,
\* garage/workshop floor, commercial kitchen floor) a DCOF below the
\* threshold (0.50 for the commercial kitchen floor, 0.42 for the others)
\* gives ok=false, and a DCOF equal to the threshold is not rejected for slip
\* resistance: when such a product is rejected, it is rejected without its
\* DCOF as well.
C24_SlipThreshold ==
    (rule_pc = "done" /\ rule_use_case \in C24_DCOF_USES /\ C17_Dcof.some) =>
        /\ ~FloatLeq(C24_Threshold, C17_Dcof) => verdict.ok = "False"
        /\ (FloatEq(C17_Dcof, C24_Threshold) /\ verdict.ok = "False")
              => checker(rule_use_case, C24_WithoutDcof).ok = "False"

C25_PEI_USES ==
    {"commercial_heavy_floor", "garage_workshop_floor",
     "commercial_kitchen_floor"}
C25_Pei == extract_float(C17_Attribute(KEY_pei_rating))
\* The product without its PEI record
C25_WithoutPei ==
    SelectSeq(rule_detail, LAMBDA r : normalize_key(r.spec_key) # KEY_pei_rating)
\* What a heavy-traffic signal does in each of the three evaluators, once
\* no rule has rejected the product
C25_HeavySignalCounts ==
    CASE rule_use_case = "commercial_heavy_floor" -> C17_Verdict("True", 90)
      [] rule_use_case = "garage_workshop_floor" ->
            (verdict.ok # "False" /\ C17_Attribute(KEY_water_resistance) # <<>>)
                => C17_Verdict("True", 80)
      [] rule_use_case = "commercial_kitchen_floor" ->
            (/\ verdict.ok # "False"
             /\ \/ C16_Mentions(C17_Attribute(KEY_floor_suitability_rating),
                                KW_commercial)
                \/ C16_Mentions(C17_Attribute(KEY_floor_suitability_rating),
                                KW_heavy)
                \/ C16_Mentions(C17_Attribute(KEY_floor_suitability_rating),
                                KW_restaurant))
                => C17_Verdict("True", 85)

\* C25: in the commercial heavy floor, garage/workshop floor and commercial
\* kitchen floor evaluators a PEI of 4 or more counts as a heavy-traffic
\* signal, a PEI of 2 or less gives ok=false, and a PEI strictly between 2
\* and 4 fires no rule: ok and confidence are those of the same product
\* without its PEI record.
C25_PeiBands ==
    (rule_pc = "done" /\ rule_use_case \in C25_PEI_USES /\ C25_Pei.some) =>
        /\ FloatLeq(Float(4, 1), C25_Pei) => C25_HeavySignalCounts
        /\ FloatLeq(C25_Pei, Float(2, 1)) => verdict.ok = "False"
        /\ (~FloatLeq(C25_Pei, Float(2, 1)) /\ ~FloatLeq(Float(4, 1), C25_Pei))
              => /\ verdict.ok = checker(rule_use_case, C25_WithoutPei).ok
                 /\ FloatEq(verdict.confidence,
                            checker(rule_use_case, C25_WithoutPei).confidence)

\* A PEI of 3 on a product that another signal decides
C25_Witness ==
    /\ rule_pc = "done"
    /\ rule_use_case = "commercial_heavy_floor"
    /\ C17_Attribute(KEY_pei_rating) = VAL_3
    /\ C17_Verdict("True", 85)

-----------------------------------------------------------------------------
\* The kind of JSON document each tool returns
C26_ResultKind ==
    [t \in {JStr("search_products"), JStr("get_product_detail"),
            JStr("check_usage")} |->
        CASE t = JStr("search_products") -> "results"
          [] t = JStr("get_product_detail") -> "detail"
          [] t = JStr("check_usage") -> "usage"]

\* The message carries the JSON-encoded result of the tool the text asked for
C26_CarriesResult(message, raw) ==
    /\ message.role = "system"
    /\ \E j \in 1..Len(message.content) :
          /\ message.content[j].t = "json"
          /\ parse_action(raw).action.tool_name \in DOMAIN C26_ResultKind
          /\ message.content[j].kind
                = C26_ResultKind[parse_action(raw).action.tool_name]
          /\ \A k \in 1..Len(message.content) :
                message.content[k].t = "json" => k = j

\* C26: each successfully executed tool call appends exactly two messages to
\* the conversation, the assistant's raw tool-call text and then a system
\* message carrying the tool's JSON-encoded result; the messages already
\* there stay unchanged and in place, nothing else extends the conversation,
\* and the next LLM call receives exactly the extended conversation.
C26_ToolCallAppendsTwo ==
    /\ [][tools_ok' # tools_ok =>
            /\ tools_ok' = tools_ok + 1
            /\ Len(conversation') = Len(conversation) + 2
            /\ SubSeq(conversation', 1, Len(conversation)) = conversation
            /\ conversation'[Len(conversation) + 1] = Msg("assistant", last_reply')
            /\ C26_CarriesResult(conversation'[Len(conversation) + 2], last_reply')]_vars
    /\ [][(pc = "loop" /\ conversation' # conversation)
            => tools_ok' = tools_ok + 1]_vars
    /\ [][llm_calls' # llm_calls => sent' = conversation]_vars

\* The second LLM call received the conversation the first tool call extended
C26_Witness ==
    /\ tools_ok = 1
    /\ llm_calls = 2
    /\ response.returned
    /\ Len(sent) >= 5
    /\ sent = conversation
    /\ sent[Len(sent) - 1].role = "assistant"
    /\ C26_CarriesResult(sent[Len(sent)], sent[Len(sent) - 1].content)

\* C27: check_shower_wall returns ok=false with confidence 0.95 whenever the
\* 'shower surface' value contains 'not suitable for shower walls', and
\* returns ok=true only when the value contains 'suitable for shower walls'
\* without that negation.
C27_ShowerWallNegation ==
    (rule_pc = "done" /\ rule_use_case = "shower_wall") =>
        /\ C16_Mentions(C17_Attribute(KEY_shower_surface),
                        KW_not_suitable_for_shower_walls)
              => C17_Verdict("False", 95)
        /\ verdict.ok = "True" =>
              /\ C16_Mentions(C17_Attribute(KEY_shower_surface),
                              KW_suitable_for_shower_walls)
              /\ ~C16_Mentions(C17_Attribute(KEY_shower_surface),
                               KW_not_suitable_for_shower_walls)

\* The radiant-heat attribute the evaluator reads
C28_RadiantHeat ==
    IF C17_Attribute(KEY_radiant_heat_compatible) # <<>>
    THEN C17_Attribute(KEY_radiant_heat_compatible)
    ELSE C17_Attribute(KEY_radiant_heat_compatibility)

\* C28: check_fireplace_surround returns ok=false with confidence 0.95
\* whenever the 'fireplace surround use' value contains 'not suitable', and
\* check_radiant_heat returns ok=false with confidence 0.95 whenever the
\* radiant-heat value contains 'not compatible'; neither reports such a
\* value as suitable.
C28_NegationRejected ==
    /\ (/\ rule_pc = "done"
        /\ rule_use_case = "fireplace_surround"
        /\ C16_Mentions(C17_Attribute(KEY_fireplace_surround_use), KW_not_suitable))
          => C17_Verdict("False", 95)
    /\ (/\ rule_pc = "done"
        /\ rule_use_case = "radiant_heat"
        /\ C16_Mentions(C28_RadiantHeat, KW_not_compatible))
          => C17_Verdict("False", 95)

\* The three signals of the steam shower evaluator
C29_WallSuitable ==
    /\ \/ C16_Mentions(C17_Attribute(KEY_shower_surface),
                       KW_suitable_for_shower_walls)
       \/ C16_Mentions(C17_Attribute(KEY_shower_surface), KW_wet_walls)
    /\ ~C16_Mentions(C17_Attribute(KEY_shower_surface),
                     KW_not_suitable_for_shower_walls)
C29_LowAbsorption ==
    /\ extract_float(C17_Attribute(KEY_water_absorption)).some
    /\ FloatLeq(extract_float(C17_Attribute(KEY_water_absorption)), Float(5, 10))
C29_WaterResistant ==
    /\ C17_Attribute(KEY_water_resistance) # <<>>
    /\ \A negative \in {KW_not_water, KW_not_resistant, KW_not_recommended} :
          ~C16_Mentions(C17_Attribute(KEY_water_resistance), negative)

\* C29: check_steam_shower_enclosure returns ok=true only when the shower
\* surface indicates wall suitability without negation, the water absorption
\* parses to at most 0.5 and a water-resistance attribute is present and not
\* negative; with only some of the three and no rejection it returns
\* unknown, never true.
C29_ThreeSignals ==
    (rule_pc = "done" /\ rule_use_case = "steam_shower_enclosure") =>
        /\ verdict.ok = "True"
              => C29_WallSuitable /\ C29_LowAbsorption /\ C29_WaterResistant
        /\ (/\ ~(C29_WallSuitable /\ C29_LowAbsorption /\ C29_WaterResistant)
            /\ verdict.ok # "False")
              => verdict.ok = "None"

\* Two of the three signals, no rejection: unknown
C29_Witness ==
    /\ rule_pc = "done"
    /\ rule_use_case = "steam_shower_enclosure"
    /\ C29_WallSuitable
    /\ C29_LowAbsorption
    /\ C17_Attribute(KEY_water_resistance) = <<>>
    /\ C17_Verdict("None", 50)

\* The last LLM call failed or came back without content
C30_CallFailed == llm_calls > 0 /\ last_reply = <<>>

\* C30: when the LLM call fails or returns a missing or empty content, at any
\* iteration, the request fails at once: the call is not retried, no later
\* LLM call is made, no tool is executed afterwards and no response is
\* returned.
C30_LlmFailureIsTerminal ==
    /\ [](C30_CallFailed =>
            /\ pc = "done"
            /\ outcome = LLMFailure
            /\ response = NoResponse
            /\ conversation = sent)
    /\ [][C30_CallFailed =>
            UNCHANGED <<llm_calls, tools_ok, touched, conversation,
                        referenced_products, response, outcome>>]_vars

\* The LLM fails on the iteration that follows two executed tool calls
C30_Witness ==
    /\ C30_CallFailed
    /\ llm_calls = 3
    /\ tools_ok = 2
    /\ outcome.kind = "llm_failure"

====
